---- MODULE Spec2Model ----
(***************************************************************************)
(* Model of the log-parsing and derived-metrics pipeline of the session    *)
(* viewer: src/lib/parser.ts, src/lib/search.ts (src/unnamed/part_014),    *)
(* src/lib/trends.ts, src/lib/insights.ts and the export route             *)
(* src/app/api/export/route.ts.                                            *)
(*                                                                         *)
(* Every function of the source is an operator that computes what the      *)
(* code computes; every call of a public entry point is one action.  The   *)
(* inputs (files, identifiers, requests) are drawn from bounded sets.      *)
(***************************************************************************)
EXTENDS Integers, Sequences, FiniteSets, TLC

VARIABLES
    call,       \* [op, project, session]: the entry point called and its arguments
    tree,       \* the data root: [state, entries], see the file system below
    outside,    \* what a path that leaves the data root resolves to
    result,     \* Pending, Threw or Returned(value) of the call
    reads,      \* the [project, session] paths the call handed to fs.readFileSync
    segment,    \* argument of isValidPathSegment
    valid,      \* its result ("none" before the call)
    request,    \* export GET: [project, session, format]
    pc,         \* export GET: position in the handler
    response,   \* export GET: HTTP status, 0 before the handler returned
    fsCalls,    \* export GET: the filesystem-touching calls made so far
    toolCalls,  \* argument of detectPhases
    phases,     \* its result (<<>> before the call)
    claudeJson,        \* the side configuration file ~/.claude.json
    projectPathCache,  \* per module: the module variable projectPathCache
    configCalls        \* per module: the fs calls made on the configuration file

vars == <<call, tree, outside, result, reads, segment, valid, request, pc,
          response, fsCalls, toolCalls, phases, claudeJson, projectPathCache,
          configCalls>>

parserVars  == <<call, tree, outside, result, reads>>
segmentVars == <<segment, valid>>
exportVars  == <<request, pc, response, fsCalls>>
phaseVars   == <<toolCalls, phases>>
cacheVars   == <<claudeJson, projectPathCache, configCalls>>

(***************************************************************************)
(* Bounds of the model.                                                    *)
(***************************************************************************)
MaxLines == 3      \* lines per session file
MaxCalls == 3      \* tool calls handed to detectPhases
MaxRuns  == 2      \* runs of equal characters in a path segment
MaxEntries == 2    \* entries of the data root in an aggregate scan
MaxSessions == 3   \* session files of the project in getTokenAnalytics
UnitsPerDay == 2   \* clock ticks in a day: a time is a number of ticks
MaxTokens == 2     \* tokens per usage field handed to calculateTokenCost
MaxProjects == 2   \* project paths in the configuration file

Range(s) == {s[k] : k \in 1..Len(s)}

SeqsUpTo(S, n) == UNION {[1..k -> S] : k \in 0..n}

(***************************************************************************)
(* Outcome of a call.                                                      *)
(***************************************************************************)
Pending     == [status |-> "pending"]
Threw       == [status |-> "threw"]
Returned(v) == [status |-> "returned", value |-> v]
NullValue   == [null |-> TRUE]

(***************************************************************************)
(* Text.  A string is a sequence of tokens: "x", "y" are ordinary          *)
(* characters, "\n" a line feed, and "FR", "SR", "TR" the literal texts    *)
(* '<function_results>', '<system-reminder>' and '<tool_result' that the   *)
(* task-boundary tests look for with startsWith.  The empty sequence is    *)
(* the empty string, which JavaScript treats as false.                     *)
(***************************************************************************)
StartsWith(text, token) == Len(text) > 0 /\ text[1] = token

(***************************************************************************)
(* message.content (RawMessage, ContentItem, RawToolUse).                  *)
(*   [kind |-> "none"]          missing, null or the empty string: falsy   *)
(*   [kind |-> "str", s]        a non-empty string                         *)
(*   [kind |-> "arr", items]    an array of content blocks                 *)
(*   [kind |-> "other"]         any other truthy value (number, object)    *)
(* A block is [type, text, name, input]; text, name are "" (<<>>, "") when *)
(* the block has none.                                                     *)
(***************************************************************************)
NoContent     == [kind |-> "none"]
StrContent(s) == [kind |-> "str", s |-> s]
ArrContent(b) == [kind |-> "arr", items |-> b]
OtherContent  == [kind |-> "other"]

NoInput == [file_path |-> <<>>, command |-> <<>>, subagent_type |-> ""]

TextBlock(t)    == [type |-> "text", text |-> t, name |-> "", input |-> NoInput]
ThinkingBlock   == [type |-> "thinking", text |-> <<>>, name |-> "", input |-> NoInput]
ToolUse(n, inp) == [type |-> "tool_use", text |-> <<>>, name |-> n, input |-> inp]

Truthy(content) == content.kind # "none"

(***************************************************************************)
(* A line of a session file.  ok = FALSE is a line on which JSON.parse, or *)
(* the first property access on its value, throws.  ts = 0 is a missing or *)
(* empty timestamp (the timestamps 1, 2 are in chronological order; the    *)
(* code never orders them), uuid = 0 a missing or empty uuid, summary = 0 a *)
(* missing or empty summary text, model = 0 a missing or empty model: the  *)
(* code tests these fields for truthiness only.  usage is NoUsage or a     *)
(* record of the four counters, each <<n>> for the number n and <<>> for a *)
(* counter the usage object does not have.                                 *)
(***************************************************************************)
Usage(i, o, cc, cr) ==
    [present |-> TRUE, input_tokens |-> i, output_tokens |-> o,
     cache_creation_input_tokens |-> cc, cache_read_input_tokens |-> cr]

NoUsage == [Usage(<<>>, <<>>, <<>>, <<>>) EXCEPT !.present = FALSE]

Line(type, ts, uuid, summary, content) ==
    [ok |-> TRUE, type |-> type, ts |-> ts, uuid |-> uuid, summary |-> summary,
     content |-> content, usage |-> NoUsage, model |-> 0]

Malformed == [Line("other", 0, 0, 0, NoContent) EXCEPT !.ok = FALSE]

(***************************************************************************)
(* extractTextContent (parser.ts), extractUserText (parser.ts): the text   *)
(* fields of the blocks of type "text" with a non-empty text, joined by a  *)
(* line feed; a string content verbatim; anything else the empty string.   *)
(***************************************************************************)
TextParts(items) ==
    SelectSeq(items, LAMBDA item : item.type = "text" /\ item.text # <<>>)

RECURSIVE JoinLF(_)
JoinLF(parts) ==
    IF parts = <<>> THEN <<>>
    ELSE IF Len(parts) = 1 THEN parts[1].text
    ELSE parts[1].text \o <<"\n">> \o JoinLF(Tail(parts))

extractTextContent(content) ==
    CASE content.kind = "str" -> content.s
      [] content.kind = "arr" -> JoinLF(TextParts(content.items))
      [] OTHER -> <<>>

extractUserText(content) ==
    CASE content.kind = "str" -> content.s
      [] content.kind = "arr" -> JoinLF(TextParts(content.items))
      [] OTHER -> <<>>

(***************************************************************************)
(* parseSessionFile: one pass over the lines.  The local sessionId of the  *)
(* source is never returned and is left out.                               *)
(***************************************************************************)
MetaInit == [summary |-> 0, firstMessageTime |-> 0, lastMessageTime |-> 0]

QualifiesForMeta_AnyType(data) == data.ts # 0

QualifiesForMeta(data) ==
    (data.type = "user" \/ data.type = "assistant") /\ data.ts # 0

MetaSummary_KeepFirst(acc, data) ==
    IF data.type = "summary" /\ data.summary # 0 /\ acc.summary = 0
    THEN data.summary ELSE acc.summary

MetaSummary(acc, data) ==
    IF data.type = "summary" /\ data.summary # 0 THEN data.summary ELSE acc.summary

MetaLine_LatestTime(acc, data) ==
    IF ~data.ok THEN acc
    ELSE LET s == MetaSummary(acc, data) IN
         IF QualifiesForMeta(data)
         THEN [summary |-> s,
               firstMessageTime |-> IF acc.firstMessageTime = 0 THEN data.ts
                                    ELSE acc.firstMessageTime,
               lastMessageTime |-> IF data.ts > acc.lastMessageTime THEN data.ts
                                   ELSE acc.lastMessageTime]
         ELSE [acc EXCEPT !.summary = s]

MetaLine(acc, data) ==
    IF ~data.ok THEN acc
    ELSE LET s == MetaSummary(acc, data) IN
         IF QualifiesForMeta(data)
         THEN [summary |-> s,
               firstMessageTime |-> IF acc.firstMessageTime = 0 THEN data.ts
                                    ELSE acc.firstMessageTime,
               lastMessageTime |-> data.ts]
         ELSE [acc EXCEPT !.summary = s]

RECURSIVE MetaFold(_, _)
MetaFold(acc, ls) ==
    IF ls = <<>> THEN acc ELSE MetaFold(MetaLine(acc, Head(ls)), Tail(ls))

\* path.basename(filePath, '.jsonl')
Basename(id) == IF id = <<>> THEN <<>> ELSE <<id[Len(id)]>>

parseSessionFile(file, ls, projectName, sessionId) ==
    IF file # "ok" THEN Returned(NullValue)      \* readFileSync throws: catch
    ELSE LET acc == MetaFold(MetaInit, ls) IN
         IF acc.firstMessageTime = 0 \/ acc.lastMessageTime = 0
         THEN Returned(NullValue)
         ELSE Returned([null |-> FALSE, id |-> Basename(sessionId),
                        projectPath |-> projectName,
                        summary |-> acc.summary,
                        firstMessageTime |-> acc.firstMessageTime,
                        lastMessageTime |-> acc.lastMessageTime])

getSession(file, ls, projectName, sessionId) ==
    parseSessionFile(file, ls, projectName, sessionId)

(***************************************************************************)
(* getMessages.                                                            *)
(***************************************************************************)
MessageOf(data) ==
    [uuid |-> data.uuid, type |-> data.type,
     content |-> extractTextContent(data.content), timestamp |-> data.ts]

MessagesLine_AbortOnMalformed(messages, data) ==
    IF ~data.ok THEN <<>>
    ELSE IF (data.type = "user" \/ data.type = "assistant")
            /\ Truthy(data.content) /\ data.uuid # 0 /\ data.ts # 0
            /\ extractTextContent(data.content) # <<>>
         THEN Append(messages, MessageOf(data))
         ELSE messages

MessagesLine_Unshift(messages, data) ==
    IF ~data.ok THEN messages
    ELSE IF (data.type = "user" \/ data.type = "assistant")
            /\ Truthy(data.content) /\ data.uuid # 0 /\ data.ts # 0
            /\ extractTextContent(data.content) # <<>>
         THEN <<MessageOf(data)>> \o messages
         ELSE messages

MessagesLine_SkipToolResults(messages, data) ==
    IF ~data.ok THEN messages
    ELSE IF (data.type = "user" \/ data.type = "assistant")
            /\ Truthy(data.content) /\ data.uuid # 0 /\ data.ts # 0
            /\ extractTextContent(data.content) # <<>>
            /\ ~StartsWith(extractTextContent(data.content), "FR")
            /\ ~StartsWith(extractTextContent(data.content), "SR")
         THEN Append(messages, MessageOf(data))
         ELSE messages

MessagesLine(messages, data) ==
    IF ~data.ok THEN messages
    ELSE IF (data.type = "user" \/ data.type = "assistant")
            /\ Truthy(data.content) /\ data.uuid # 0 /\ data.ts # 0
            /\ extractTextContent(data.content) # <<>>
         THEN Append(messages, MessageOf(data))
         ELSE messages

RECURSIVE MessagesFold(_, _)
MessagesFold(messages, ls) ==
    IF ls = <<>> THEN messages
    ELSE MessagesFold(MessagesLine(messages, Head(ls)), Tail(ls))

getMessages_Unguarded(file, ls) ==
    IF file # "ok" THEN Threw ELSE Returned(MessagesFold(<<>>, ls))

getMessages(file, ls) ==
    IF file = "missing" THEN Returned(<<>>)          \* existsSync is false
    ELSE IF file # "ok" THEN Returned(<<>>)          \* readFileSync throws: catch
    ELSE Returned(MessagesFold(<<>>, ls))

(***************************************************************************)
(* Tool inputs.  file_path is a path given by its '/'-separated parts,     *)
(* command a shell command given by its tokens ("SP" is one white-space    *)
(* character, every other token a word); <<>> is a missing or empty value  *)
(* and NonString a truthy value that is not a string.                      *)
(***************************************************************************)
NonString == <<"#nonstring">>

Input(fp, cmd, sub) == [file_path |-> fp, command |-> cmd, subagent_type |-> sub]

(***************************************************************************)
(* extractToolCalls (parser.ts).                                           *)
(***************************************************************************)
ToolCallOf(item, timestamp) ==
    [name |-> item.name, input |-> item.input, timestamp |-> timestamp]

RECURSIVE ToolCallsOfItems(_, _)
ToolCallsOfItems(items, timestamp) ==
    IF items = <<>> THEN <<>>
    ELSE LET rest == ToolCallsOfItems(Tail(items), timestamp) IN
         IF Head(items).type = "tool_use" /\ Head(items).name # ""
         THEN <<ToolCallOf(Head(items), timestamp)>> \o rest
         ELSE rest

extractToolCalls_Unstamped(content, timestamp) ==
    IF content.kind = "arr" THEN ToolCallsOfItems(content.items, 0) ELSE <<>>

extractToolCalls(content, timestamp) ==
    IF content.kind = "arr" THEN ToolCallsOfItems(content.items, timestamp) ELSE <<>>

(***************************************************************************)
(* The verification pattern of detectPhases,                               *)
(*   /(npm\s+(test|run\s+build|run\s+lint)|pytest|jest|cargo\s+test)/      *)
(* searched anywhere in the command.  In a pattern "SP" stands for \s+.    *)
(***************************************************************************)
VerificationPatterns ==
    { <<"npm", "SP", "test">>, <<"npm", "SP", "run", "SP", "build">>,
      <<"npm", "SP", "run", "SP", "lint">>, <<"pytest">>, <<"jest">>,
      <<"cargo", "SP", "test">> }

RECURSIVE MatchFrom(_, _, _)
MatchFrom(cmd, i, pat) ==
    IF pat = <<>> THEN TRUE
    ELSE IF i > Len(cmd) THEN FALSE
    ELSE IF Head(pat) = "SP"
         THEN cmd[i] = "SP"
              /\ (MatchFrom(cmd, i + 1, pat) \/ MatchFrom(cmd, i + 1, Tail(pat)))
         ELSE cmd[i] = Head(pat) /\ MatchFrom(cmd, i + 1, Tail(pat))

MatchesVerification(cmd) ==
    \E pat \in VerificationPatterns : \E i \in 1..Len(cmd) : MatchFrom(cmd, i, pat)

(***************************************************************************)
(* detectPhases (parser.ts).  The result is the list of phases in the      *)
(* order the code pushes them.                                             *)
(***************************************************************************)
IsInvestigation_AnyTask(t) == t.name \in {"Read", "Glob", "Grep", "Task"}

IsInvestigation(t) ==
    t.name \in {"Read", "Glob", "Grep", "Task"}
    /\ (t.name # "Task" \/ t.input.subagent_type = "Explore")

IsPlanning(t) ==
    t.name = "TodoWrite" \/ (t.name = "Task" /\ t.input.subagent_type = "Plan")

IsImplementation(t) == t.name \in {"Edit", "Write"}

IsVerification(t) ==
    t.name = "Bash" /\ t.input.command # NonString
    /\ MatchesVerification(t.input.command)

Some(calls, P(_)) == \E k \in 1..Len(calls) : P(calls[k])

detectPhases(calls) ==
    LET found ==
            (IF Some(calls, IsInvestigation) THEN <<"investigation">> ELSE <<>>)
            \o (IF Some(calls, IsPlanning) THEN <<"planning">> ELSE <<>>)
            \o (IF Some(calls, IsImplementation) THEN <<"implementation">> ELSE <<>>)
            \o (IF Some(calls, IsVerification) THEN <<"verification">> ELSE <<>>)
    IN  IF Len(found) = 0 THEN <<"immediate">> ELSE found

(***************************************************************************)
(* extractFileName (parser.ts): the path itself when it has at most two    *)
(* parts, else its last two parts.                                         *)
(***************************************************************************)
extractFileName(fullPath) ==
    IF Len(fullPath) <= 2 THEN fullPath
    ELSE SubSeq(fullPath, Len(fullPath) - 1, Len(fullPath))

(***************************************************************************)
(* truncateText (parser.ts): the tags '<...>' are removed ("FR" and "SR"   *)
(* are whole tags; the texts of the model hold no command-message or       *)
(* command-name element), the text is trimmed of white space at both ends  *)
(* ("\n", "SP"), and a text longer than maxLength is cut there and gets    *)
(* '...' appended.  A token counts for one character.                      *)
(***************************************************************************)
UserMessageLength == 200
CommandLength     == 50

TagTokens  == {"FR", "SR"}
WhiteSpace == {"\n", "SP"}

RECURSIVE TrimStart(_)
TrimStart(text) ==
    IF text # <<>> /\ Head(text) \in WhiteSpace THEN TrimStart(Tail(text)) ELSE text

RECURSIVE TrimEnd(_)
TrimEnd(text) ==
    IF text # <<>> /\ text[Len(text)] \in WhiteSpace
    THEN TrimEnd(SubSeq(text, 1, Len(text) - 1))
    ELSE text

truncateText(text, maxLength) ==
    LET cleaned == TrimEnd(TrimStart(SelectSeq(text, LAMBDA c : c \notin TagTokens)))
    IN  IF Len(cleaned) <= maxLength THEN cleaned
        ELSE Append(SubSeq(cleaned, 1, maxLength), "...")

(***************************************************************************)
(* getSessionSummary (parser.ts).  The state of the pass is the record st; *)
(* st.cur is the task currently open when st.open holds.  truncateText and *)
(* extractFileName throw on a value that is not a string; the throw leaves *)
(* the loop over the tool calls of the line and is caught by the try       *)
(* around the line.                                                        *)
(***************************************************************************)
NewTask(id, text, timestamp) ==
    [id |-> id, userMessage |-> text, timestamp |-> timestamp, phases |-> <<>>,
     toolCalls |-> <<>>, filesRead |-> <<>>, filesModified |-> <<>>,
     filesCreated |-> <<>>, commandsRun |-> <<>>]

NoTask == NewTask(0, <<>>, 0)

SummaryInit ==
    [tasks |-> <<>>, open |-> FALSE, cur |-> NoTask, taskId |-> 0,
     allFilesRead |-> {}, allFilesModified |-> {}, allFilesCreated |-> {},
     commandsRun |-> 0, searchCount |-> 0, webSearchCount |-> 0, threw |-> FALSE]

IsTaskStart_ReminderNotSkipped(data) ==
    data.type = "user" /\ Truthy(data.content) /\ data.ts # 0
    /\ LET textContent == extractUserText(data.content) IN
          /\ textContent # <<>>
          /\ ~StartsWith(textContent, "FR")

IsTaskStart(data) ==
    data.type = "user" /\ Truthy(data.content) /\ data.ts # 0
    /\ LET textContent == extractUserText(data.content) IN
          /\ textContent # <<>>
          /\ ~StartsWith(textContent, "FR")
          /\ ~StartsWith(textContent, "SR")

CloseTask(task) == [task EXCEPT !.phases = detectPhases(task.toolCalls)]

OpenTask(st, data) ==
    [st EXCEPT !.tasks = IF st.open THEN Append(st.tasks, CloseTask(st.cur))
                         ELSE st.tasks,
               !.taskId = st.taskId + 1,
               !.open = TRUE,
               !.cur = NewTask(st.taskId + 1,
                              truncateText(extractUserText(data.content),
                                           UserMessageLength),
                              data.ts)]

AddUnique(list, x) == IF x \in Range(list) THEN list ELSE Append(list, x)

CollectTool(st, tool) ==
    LET pushed == [st EXCEPT !.cur.toolCalls = Append(st.cur.toolCalls, tool)]
        input  == tool.input
    IN  CASE tool.name = "Read" /\ input.file_path # <<>> ->
               IF input.file_path = NonString THEN [pushed EXCEPT !.threw = TRUE]
               ELSE [pushed EXCEPT
                       !.cur.filesRead = AddUnique(@, extractFileName(input.file_path)),
                       !.allFilesRead = @ \cup {extractFileName(input.file_path)}]
          [] tool.name = "Edit" /\ input.file_path # <<>> ->
               IF input.file_path = NonString THEN [pushed EXCEPT !.threw = TRUE]
               ELSE [pushed EXCEPT
                       !.cur.filesModified = AddUnique(@, extractFileName(input.file_path)),
                       !.allFilesModified = @ \cup {extractFileName(input.file_path)}]
          [] tool.name = "Write" /\ input.file_path # <<>> ->
               IF input.file_path = NonString THEN [pushed EXCEPT !.threw = TRUE]
               ELSE [pushed EXCEPT
                       !.cur.filesCreated = AddUnique(@, extractFileName(input.file_path)),
                       !.allFilesCreated = @ \cup {extractFileName(input.file_path)}]
          [] tool.name = "Bash" /\ input.command # <<>> ->
               IF input.command = NonString THEN [pushed EXCEPT !.threw = TRUE]
               ELSE [pushed EXCEPT
                       !.cur.commandsRun = Append(@, truncateText(input.command,
                                                                CommandLength)),
                       !.commandsRun = @ + 1]
          [] tool.name \in {"Glob", "Grep"} ->
               [pushed EXCEPT !.searchCount = @ + 1]
          [] tool.name \in {"WebSearch", "WebFetch"} ->
               [pushed EXCEPT !.webSearchCount = @ + 1]
          [] OTHER -> pushed

RECURSIVE CollectTools(_, _)
CollectTools(st, tools) ==
    IF tools = <<>> \/ st.threw THEN st
    ELSE CollectTools(CollectTool(st, Head(tools)), Tail(tools))

SummaryLine(st, data) ==
    IF ~data.ok THEN st
    ELSE LET st1 == IF IsTaskStart(data) THEN OpenTask(st, data) ELSE st IN
         IF data.type = "assistant" /\ Truthy(data.content) /\ data.ts # 0 /\ st1.open
         THEN [CollectTools(st1, extractToolCalls(data.content, data.ts))
                 EXCEPT !.threw = FALSE]
         ELSE st1

RECURSIVE SummaryFold(_, _)
SummaryFold(st, ls) ==
    IF ls = <<>> THEN st ELSE SummaryFold(SummaryLine(st, Head(ls)), Tail(ls))

FlushTask_Forgotten(st) == st.tasks

FlushTask_First(st) ==
    IF st.open THEN <<CloseTask(st.cur)>> \o st.tasks ELSE st.tasks

FlushTask(st) ==
    IF st.open THEN Append(st.tasks, CloseTask(st.cur)) ELSE st.tasks

getSessionSummary(file, ls, sessionId) ==
    IF file = "missing" THEN Returned(NullValue)     \* existsSync is false
    ELSE IF file # "ok" THEN Returned(NullValue)     \* readFileSync throws: catch
    ELSE LET st    == SummaryFold(SummaryInit, ls)
             tasks == FlushTask(st)
         IN  Returned([null |-> FALSE, sessionId |-> sessionId,
                       totalTasks |-> Len(tasks), tasks |-> tasks,
                       stats |-> [filesRead |-> Cardinality(st.allFilesRead),
                                  filesModified |-> Cardinality(st.allFilesModified),
                                  filesCreated |-> Cardinality(st.allFilesCreated),
                                  commandsRun |-> st.commandsRun,
                                  searchCount |-> st.searchCount,
                                  webSearchCount |-> st.webSearchCount]])

(***************************************************************************)
(* getSessionTokenStats (parser.ts).  CurrentTime stands for the           *)
(* new Date() taken when no line carries a timestamp.                      *)
(***************************************************************************)
CurrentTime == 3

TokenInit ==
    [inputTokens |-> 0, outputTokens |-> 0, cacheCreationInputTokens |-> 0,
     cacheReadInputTokens |-> 0, firstTimestamp |-> 0, model |-> 0]

OrZero(counter) == IF counter = <<>> THEN 0 ELSE counter[1]      \* counter || 0

TokenLine_AnyType(acc, data) ==
    IF ~data.ok THEN acc
    ELSE LET a == IF data.usage.present
                  THEN [acc EXCEPT
                          !.inputTokens = @ + OrZero(data.usage.input_tokens),
                          !.outputTokens = @ + OrZero(data.usage.output_tokens),
                          !.cacheCreationInputTokens =
                              @ + OrZero(data.usage.cache_creation_input_tokens),
                          !.cacheReadInputTokens =
                              @ + OrZero(data.usage.cache_read_input_tokens),
                          !.model = IF acc.model = 0 /\ data.model # 0 THEN data.model
                                    ELSE acc.model]
                  ELSE acc
         IN  IF data.ts # 0 /\ a.firstTimestamp = 0
             THEN [a EXCEPT !.firstTimestamp = data.ts] ELSE a

TokenLine_LastModel(acc, data) ==
    IF ~data.ok THEN acc
    ELSE LET a == IF data.type = "assistant" /\ data.usage.present
                  THEN [acc EXCEPT
                          !.inputTokens = @ + OrZero(data.usage.input_tokens),
                          !.outputTokens = @ + OrZero(data.usage.output_tokens),
                          !.cacheCreationInputTokens =
                              @ + OrZero(data.usage.cache_creation_input_tokens),
                          !.cacheReadInputTokens =
                              @ + OrZero(data.usage.cache_read_input_tokens),
                          !.model = IF data.model # 0 THEN data.model ELSE acc.model]
                  ELSE acc
         IN  IF data.ts # 0 /\ a.firstTimestamp = 0
             THEN [a EXCEPT !.firstTimestamp = data.ts] ELSE a

TokenLine(acc, data) ==
    IF ~data.ok THEN acc
    ELSE LET a == IF data.type = "assistant" /\ data.usage.present
                  THEN [acc EXCEPT
                          !.inputTokens = @ + OrZero(data.usage.input_tokens),
                          !.outputTokens = @ + OrZero(data.usage.output_tokens),
                          !.cacheCreationInputTokens =
                              @ + OrZero(data.usage.cache_creation_input_tokens),
                          !.cacheReadInputTokens =
                              @ + OrZero(data.usage.cache_read_input_tokens),
                          !.model = IF acc.model = 0 /\ data.model # 0 THEN data.model
                                    ELSE acc.model]
                  ELSE acc
         IN  IF data.ts # 0 /\ a.firstTimestamp = 0
             THEN [a EXCEPT !.firstTimestamp = data.ts] ELSE a

RECURSIVE TokenFold(_, _)
TokenFold(acc, ls) ==
    IF ls = <<>> THEN acc ELSE TokenFold(TokenLine(acc, Head(ls)), Tail(ls))

getSessionTokenStats(file, ls, projectName, sessionId) ==
    IF file = "missing" THEN Returned(NullValue)     \* existsSync is false
    ELSE IF file # "ok" THEN Returned(NullValue)     \* readFileSync throws: catch
    ELSE LET acc == TokenFold(TokenInit, ls) IN
         Returned([null |-> FALSE, sessionId |-> sessionId, projectPath |-> projectName,
                   timestamp |-> IF acc.firstTimestamp # 0 THEN acc.firstTimestamp
                                 ELSE CurrentTime,
                   usage |-> [inputTokens |-> acc.inputTokens,
                              outputTokens |-> acc.outputTokens,
                              cacheCreationInputTokens |-> acc.cacheCreationInputTokens,
                              cacheReadInputTokens |-> acc.cacheReadInputTokens],
                   model |-> acc.model])

(***************************************************************************)
(* The file system.  The data root is [state, entries]: state is "dir",    *)
(* "missing" or "notdir" (the path holds something that cannot be listed). *)
(* An entry of the root is [name, kind, files] with kind                   *)
(*   "dir"       a project directory                                       *)
(*   "file"      a plain file                                              *)
(*   "dangling"  a symbolic link whose target is gone: existsSync is       *)
(*               false and statSync throws                                 *)
(*   "locked"    a directory that cannot be listed: readdirSync throws     *)
(* and a file of a project is [name, jsonl, agent, state, lines]: the base *)
(* name, whether the name ends in '.jsonl', whether it starts with         *)
(* 'agent-', "ok" or "unreadable" (readFileSync throws), and its lines.    *)
(*                                                                         *)
(* Identifiers are sequences of path tokens: ".." and "/" are the          *)
(* traversal sequences, every other token a plain name.  The parser hands  *)
(* them to path.join unexamined, so an identifier with a traversal token   *)
(* resolves outside the project directory: outside tells what is there.    *)
(***************************************************************************)
CleanProject == <<"proj">>
CleanSession == <<"sess">>

NoCall == [op |-> "none", project |-> <<>>, session |-> <<>>]
NoRequest == [project |-> <<>>, session |-> <<>>, format |-> ""]
NoTree == [state |-> "missing", entries |-> <<>>]

SessionFile(name, state, ls) ==
    [name |-> name, jsonl |-> TRUE, agent |-> FALSE, state |-> state, lines |-> ls]

Project(name, files) == [name |-> name, kind |-> "dir", files |-> files]

Root(entries) == [state |-> "dir", entries |-> entries]

OutsideLines == <<Line("user", 1, 1, 0, StrContent(<<"x">>))>>

HasTraversal(id) == ".." \in Range(id) \/ "/" \in Range(id)

MissingFile == [state |-> "missing", lines |-> <<>>]

\* What path.join(claudePath, projectName) holds: "dir", "locked", "file" or "missing".
DirAt(t, projectName) ==
    IF HasTraversal(projectName) THEN (IF outside = "missing" THEN "missing" ELSE "dir")
    ELSE IF t.state # "dir" THEN "missing"
    ELSE IF \E k \in 1..Len(t.entries) :
               t.entries[k].name = projectName /\ t.entries[k].kind # "dangling"
         THEN (LET k == CHOOSE k \in 1..Len(t.entries) :
                           t.entries[k].name = projectName
                           /\ t.entries[k].kind # "dangling"
               IN  t.entries[k].kind)
         ELSE "missing"

FilesAt(t, projectName) ==
    IF HasTraversal(projectName)
    THEN (IF outside = "missing" THEN <<>>
          ELSE <<SessionFile(CleanSession, outside, OutsideLines)>>)
    ELSE IF DirAt(t, projectName) \in {"dir", "locked"}
         THEN (LET k == CHOOSE k \in 1..Len(t.entries) :
                           t.entries[k].name = projectName
                           /\ t.entries[k].kind # "dangling"
               IN  t.entries[k].files)
         ELSE <<>>

\* What path.join(claudePath, projectName, sessionId + '.jsonl') holds.
FileAt(t, projectName, sessionId) ==
    IF HasTraversal(projectName) \/ HasTraversal(sessionId)
    THEN [state |-> outside, lines |-> IF outside = "ok" THEN OutsideLines ELSE <<>>]
    ELSE LET files == FilesAt(t, projectName)
             hits  == {k \in 1..Len(files) :
                         files[k].name = sessionId /\ files[k].jsonl}
         IN  IF hits = {} THEN MissingFile
             ELSE LET f == files[CHOOSE k \in hits : TRUE] IN
                  [state |-> f.state, lines |-> IF f.state = "ok" THEN f.lines ELSE <<>>]

FileStates == {"ok", "missing", "unreadable"}

\* The file the pending call resolves to.
fileState == FileAt(tree, call.project, call.session).state
lines     == FileAt(tree, call.project, call.session).lines

(***************************************************************************)
(* getProjectPathMappings, decodeProjectPath (parser.ts, search.ts,        *)
(* trends.ts: each module has its own copy and its own projectPathCache).  *)
(* A project path is a sequence of tokens, "/" and "_" among them; its     *)
(* encoded name has "-" in their place.  claudeJson is [state, projects]:   *)
(* state is "missing", "unparseable" (readFileSync or JSON.parse throws)   *)
(* or "ok", projects the keys of data.projects in their order (none if     *)
(* there is no data.projects).  A mapping is a function from encoded names *)
(* to                                                                      *)
(* paths.  The cache of a module is NotBuilt (null) or Built(mapping): a   *)
(* Map, even an empty one, is truthy.                                      *)
(***************************************************************************)
Modules == {"parser", "search", "trends"}

ConfigFile(state, projects) == [state |-> state, projects |-> projects]
NoConfigFile == ConfigFile("missing", <<>>)

NotBuilt   == [built |-> FALSE, map |-> <<>>]
Built(map) == [built |-> TRUE, map |-> map]

EncodePath(projectPath) ==                             \* replace(/[/_]/g, '-')
    [k \in 1..Len(projectPath) |->
        IF projectPath[k] \in {"/", "_"} THEN "-" ELSE projectPath[k]]

MapSet(map, key, value) ==
    [k \in DOMAIN map \cup {key} |-> IF k = key THEN value ELSE map[k]]

RECURSIVE MappingOf(_, _)
MappingOf(map, projects) ==
    IF projects = <<>> THEN map
    ELSE MappingOf(MapSet(map, EncodePath(Head(projects)), Head(projects)),
                   Tail(projects))

ConfigCallsOf(config) ==
    IF config.state = "missing" THEN <<"existsSync">>
    ELSE <<"existsSync", "readFileSync">>

BuildMappings(config) ==
    IF config.state # "ok" THEN Built(<<>>)
    ELSE Built(MappingOf(<<>>, config.projects))

getProjectPathMappings_RebuildWhenEmpty(cache, config) ==
    IF cache.built /\ DOMAIN cache.map # {}
    THEN [cache |-> cache, calls |-> <<>>]
    ELSE [cache |-> BuildMappings(config), calls |-> ConfigCallsOf(config)]

getProjectPathMappings(cache, config) ==
    IF cache.built THEN [cache |-> cache, calls |-> <<>>]
    ELSE [cache |-> BuildMappings(config), calls |-> ConfigCallsOf(config)]

decodeProjectPath(mappings, encodedName) ==
    IF encodedName \in DOMAIN mappings
    THEN LET actualPath == mappings[encodedName] IN
         IF StartsWith(actualPath, "/") THEN Tail(actualPath) ELSE actualPath
    ELSE encodedName

\* The effect on the module's cache of a handler that decodes a name (or not).
Decoding(module, decodes) ==
    /\ LET got == getProjectPathMappings(projectPathCache[module], claudeJson) IN
       IF decodes
       THEN /\ projectPathCache' = [projectPathCache EXCEPT ![module] = got.cache]
            /\ configCalls' = [configCalls EXCEPT ![module] = @ \o got.calls]
       ELSE UNCHANGED <<projectPathCache, configCalls>>
    /\ UNCHANGED claudeJson

ParserIdle ==
    call = NoCall /\ tree = NoTree /\ outside = "missing" /\ result = Pending
    /\ reads = {}
SegmentIdle == segment = <<>> /\ valid = "none"
ExportIdle  == request = NoRequest /\ pc = "idle" /\ response = 0 /\ fsCalls = <<>>
PhaseIdle   == toolCalls = <<>> /\ phases = <<>>
CacheIdle ==
    /\ claudeJson = NoConfigFile
    /\ projectPathCache = [m \in Modules |-> NotBuilt]
    /\ configCalls = [m \in Modules |-> <<>>]

(***************************************************************************)
(* One call of a parser entry point on one session file.  Init draws the   *)
(* arguments and the file; the action is the whole call.                   *)
(***************************************************************************)
OneFileTree(state, ls) ==
    Root(<<Project(CleanProject,
                   IF state = "missing" THEN <<>>
                   ELSE <<SessionFile(CleanSession, state, ls)>>)>>)

ParserInit(op, files) ==
    /\ call = [op |-> op, project |-> CleanProject, session |-> CleanSession]
    /\ \E f \in FileStates :
          \E ls \in (IF f = "ok" THEN files ELSE {<<>>}) : tree = OneFileTree(f, ls)
    /\ outside = "missing"
    /\ result = Pending
    /\ reads = {}
    /\ SegmentIdle /\ ExportIdle /\ PhaseIdle /\ CacheIdle

ReadPath == [project |-> call.project, session |-> call.session]

CallGetSession ==
    /\ call.op = "getSession" /\ result = Pending
    /\ result' = getSession(fileState, lines, call.project, call.session)
    /\ reads' = {ReadPath}
    /\ Decoding("parser", result'.status = "returned" /\ ~result'.value.null)
    /\ UNCHANGED <<call, tree, outside, segmentVars, exportVars, phaseVars>>

CallGetMessages ==
    /\ call.op = "getMessages" /\ result = Pending
    /\ result' = getMessages(fileState, lines)
    /\ reads' = IF fileState = "missing" THEN {} ELSE {ReadPath}
    /\ UNCHANGED <<call, tree, outside, segmentVars, exportVars, phaseVars, cacheVars>>

CallGetSessionSummary ==
    /\ call.op = "getSessionSummary" /\ result = Pending
    /\ result' = getSessionSummary(fileState, lines, call.session)
    /\ reads' = IF fileState = "missing" THEN {} ELSE {ReadPath}
    /\ UNCHANGED <<call, tree, outside, segmentVars, exportVars, phaseVars, cacheVars>>

CallGetSessionTokenStats ==
    /\ call.op = "getSessionTokenStats" /\ result = Pending
    /\ result' = getSessionTokenStats(fileState, lines, call.project, call.session)
    /\ reads' = IF fileState = "missing" THEN {} ELSE {ReadPath}
    /\ Decoding("parser", result'.status = "returned" /\ ~result'.value.null)
    /\ UNCHANGED <<call, tree, outside, segmentVars, exportVars, phaseVars>>

(***************************************************************************)
(* getProjects (parser.ts): the names of the entries of the data root that *)
(* are directories.  readdirSync and statSync are not guarded: a root that *)
(* cannot be listed and an entry that cannot be stat-ed throw.             *)
(***************************************************************************)
DirectoryNames(entries) ==
    LET dirs == SelectSeq(entries, LAMBDA e : e.kind \in {"dir", "locked"})
    IN  [k \in 1..Len(dirs) |-> dirs[k].name]

getProjects(t) ==
    IF t.state = "missing" THEN Returned(<<>>)              \* existsSync is false
    ELSE IF t.state # "dir" THEN Threw                      \* readdirSync throws
    ELSE IF \E k \in 1..Len(t.entries) : t.entries[k].kind = "dangling"
         THEN Threw                                         \* statSync throws
         ELSE Returned(DirectoryNames(t.entries))

(***************************************************************************)
(* getSessions (parser.ts): the Sessions of the '.jsonl' files of the      *)
(* project that are not 'agent-' files, newest lastMessageTime first       *)
(* (Array.prototype.sort is stable).                                       *)
(***************************************************************************)
IsSessionFile(f) == f.jsonl /\ ~f.agent

InsertNewestFirst_Unsorted(sorted, x) == Append(sorted, x)

RECURSIVE InsertNewestFirst(_, _)
InsertNewestFirst(sorted, x) ==
    IF sorted = <<>> THEN <<x>>
    ELSE IF Head(sorted).lastMessageTime >= x.lastMessageTime
         THEN <<Head(sorted)>> \o InsertNewestFirst(Tail(sorted), x)
         ELSE <<x>> \o sorted

RECURSIVE SortNewestFirst(_, _)
SortNewestFirst(sorted, rest) ==
    IF rest = <<>> THEN sorted
    ELSE SortNewestFirst(InsertNewestFirst(sorted, Head(rest)), Tail(rest))

RECURSIVE ParsedSessions(_, _)
ParsedSessions(files, projectName) ==
    IF files = <<>> THEN <<>>
    ELSE LET f == Head(files)
             session == parseSessionFile(f.state, f.lines, projectName, f.name).value
             rest == ParsedSessions(Tail(files), projectName)
         IN  IF session.null THEN rest ELSE <<session>> \o rest

getSessions(t, projectName) ==
    LET dir == DirAt(t, projectName) IN
    IF dir = "missing" THEN Returned(<<>>)                  \* existsSync is false
    ELSE IF dir # "dir" THEN Threw                          \* readdirSync throws
    ELSE Returned(SortNewestFirst(<<>>,
            ParsedSessions(SelectSeq(FilesAt(t, projectName), IsSessionFile),
                           projectName)))

CallGetProjects ==
    /\ call.op = "getProjects" /\ result = Pending
    /\ result' = getProjects(tree)
    /\ reads' = {}
    /\ UNCHANGED <<call, tree, outside, segmentVars, exportVars, phaseVars, cacheVars>>

CallGetSessions ==
    /\ call.op = "getSessions" /\ result = Pending
    /\ result' = getSessions(tree, call.project)
    /\ reads' = IF result'.status = "threw" THEN {}
                ELSE LET files == SelectSeq(FilesAt(tree, call.project), IsSessionFile)
                     IN  {[project |-> call.project, session |-> files[k].name] :
                             k \in 1..Len(files)}
    /\ Decoding("parser", result'.status = "returned" /\ result'.value # <<>>)
    /\ UNCHANGED <<call, tree, outside, segmentVars, exportVars, phaseVars>>

(***************************************************************************)
(* getSession on every file of MetaFiles: the lines vary in the fields     *)
(* parseSessionFile reads (type, timestamp, summary).                      *)
(***************************************************************************)
MetaLines ==
    {Malformed}
    \cup {Line(type, ts, 1, 0, NoContent) :
            type \in {"user", "assistant", "other"}, ts \in {0, 1, 2}}
    \cup {Line("summary", 0, 0, summary, NoContent) : summary \in {0, 1, 2}}
    \cup {Line("summary", 1, 0, 1, NoContent)}

MetaFiles == SeqsUpTo(MetaLines, MaxLines)

MetaSpecInit == ParserInit("getSession", MetaFiles)
MetaSpecNext == CallGetSession
SpecMeta == MetaSpecInit /\ [][MetaSpecNext]_vars

(***************************************************************************)
(* getMessages on every file of MessageFiles: the lines vary in the fields *)
(* getMessages reads (type, content, uuid, timestamp).                     *)
(***************************************************************************)
SomePath == <<"", "src", "lib", "parser.ts">>

MessageContents ==
    { NoContent, OtherContent, StrContent(<<"x">>), StrContent(<<"FR", "x">>),
      StrContent(<<"SR", "x">>),
      ArrContent(<<TextBlock(<<"x">>), ToolUse("Read", Input(SomePath, <<>>, "")),
                   TextBlock(<<"y">>)>>),
      ArrContent(<<ThinkingBlock, TextBlock(<<>>),
                   ToolUse("Read", Input(SomePath, <<>>, ""))>>) }

MessageLines ==
    {Malformed}
    \cup {Line(type, 1, 1, 0, content) :
            type \in {"user", "assistant"}, content \in MessageContents}
    \cup {Line("user", 1, 0, 0, StrContent(<<"x">>)),
          Line("assistant", 0, 1, 0, StrContent(<<"x">>)),
          Line("summary", 1, 2, 0, StrContent(<<"y">>))}

MessageFiles == SeqsUpTo(MessageLines, MaxLines)

MessagesSpecInit == ParserInit("getMessages", MessageFiles)
MessagesSpecNext == CallGetMessages
SpecMessages == MessagesSpecInit /\ [][MessagesSpecNext]_vars

(***************************************************************************)
(* C1.  getSession returns a Session exactly when the file can be read and *)
(* some line that parses has type user or assistant and carries a          *)
(* timestamp; a file of summary lines, of malformed lines or of message    *)
(* lines without timestamp yields null.                                    *)
(***************************************************************************)
C1_SessionIffQualifyingLine ==
    (call.op = "getSession" /\ result # Pending) =>
        /\ result.status = "returned"
        /\ (~result.value.null) <=>
              (fileState = "ok"
               /\ \E k \in 1..Len(lines) :
                     /\ lines[k].ok
                     /\ lines[k].type \in {"user", "assistant"}
                     /\ lines[k].ts # 0)

C1_Witness ==
    /\ call.op = "getSession" /\ result.status = "returned"
    /\ ~result.value.null
    /\ Len(lines) = MaxLines
    /\ lines[1] = Malformed
    /\ lines[2].type = "summary" /\ lines[2].ts # 0

(***************************************************************************)
(* C2.  getMessages never throws, and a line that fails to parse changes   *)
(* nothing: the messages are those of the same file without its malformed  *)
(* lines.                                                                  *)
(***************************************************************************)
WellFormed(ls) == SelectSeq(ls, LAMBDA data : data.ok)

C2_MalformedLinesSkipped ==
    (call.op = "getMessages" /\ result # Pending) =>
        /\ result.status = "returned"
        /\ result.value = getMessages(fileState, WellFormed(lines)).value

C2_Witness ==
    /\ call.op = "getMessages" /\ result.status = "returned"
    /\ Len(lines) = MaxLines
    /\ lines[1].ok /\ ~lines[2].ok /\ lines[3].ok
    /\ Len(result.value) = 2

(***************************************************************************)
(* getSessionSummary on every file of SummaryFiles: the lines vary in the  *)
(* fields getSessionSummary reads (type, content, timestamp).              *)
(***************************************************************************)
OtherPath == <<"", "src", "components", "App.tsx">>
NpmTest   == <<"npm", "SP", "test">>

UserContents ==
    { NoContent,
      StrContent(<<"x">>), StrContent(<<"FR", "x">>), StrContent(<<"SR">>),
      StrContent(<<"TR", "x">>),
      ArrContent(<<TextBlock(<<>>), TextBlock(<<"x">>), TextBlock(<<"FR">>)>>),
      ArrContent(<<TextBlock(<<>>), TextBlock(<<"SR", "x">>)>>) }

AssistantContents ==
    { StrContent(<<"x">>),
      ArrContent(<<ToolUse("Read", Input(SomePath, <<>>, ""))>>),
      ArrContent(<<TextBlock(<<"x">>), ToolUse("Edit", Input(OtherPath, <<>>, "")),
                   ToolUse("Bash", Input(<<>>, NpmTest, ""))>>),
      ArrContent(<<ToolUse("Read", Input(NonString, <<>>, "")),
                   ToolUse("Grep", NoInput)>>),
      ArrContent(<<ToolUse("", NoInput), ToolUse("WebSearch", NoInput)>>) }

SummaryLines ==
    {Malformed}
    \cup {Line("user", 1, 1, 0, content) : content \in UserContents}
    \cup {Line("user", ts, 1, 0, StrContent(<<"y">>)) : ts \in {0, 2}}
    \cup {Line("assistant", 1, 1, 0, content) : content \in AssistantContents}
    \cup {Line("assistant", ts, 1, 0,
               ArrContent(<<ToolUse("Write", Input(SomePath, <<>>, ""))>>)) :
            ts \in {0, 2}}

SummaryFiles == SeqsUpTo(SummaryLines, MaxLines)

SummarySpecInit == ParserInit("getSessionSummary", SummaryFiles)
SummarySpecNext == CallGetSessionSummary
SpecSummary == SummarySpecInit /\ [][SummarySpecNext]_vars

SummaryReturned ==
    call.op = "getSessionSummary" /\ result.status = "returned" /\ ~result.value.null

(***************************************************************************)
(* C8.  The indexes of the user lines whose extracted text is non-empty    *)
(* and starts with neither '<function_results>' nor '<system-reminder>'.   *)
(* The statement as the specification words it: one task per such line.    *)
(***************************************************************************)
TextStartsTask(data) ==
    /\ data.ok /\ data.type = "user"
    /\ LET text == IF data.content.kind = "str" THEN data.content.s
                   ELSE IF data.content.kind = "arr"
                        THEN JoinLF(TextParts(data.content.items))
                        ELSE <<>>
       IN  text # <<>> /\ text[1] # "FR" /\ text[1] # "SR"

C8_TaskPerUserLine ==
    SummaryReturned =>
        result.value.totalTasks =
            Cardinality({k \in 1..Len(lines) : TextStartsTask(lines[k])})

(***************************************************************************)
(* C8, amended.  A task is opened at every user line that carries a        *)
(* timestamp and whose extracted text is non-empty and starts with neither *)
(* marker, and at no other line: the tasks are these lines, in file order. *)
(***************************************************************************)
Ascending(S) ==
    [j \in 1..Cardinality(S) |->
        CHOOSE k \in S : Cardinality({m \in S : m < k}) = j - 1]

StartsTaskWithTimestamp(data) == TextStartsTask(data) /\ data.ts # 0

TaskStartIndexes ==
    Ascending({k \in 1..Len(lines) : StartsTaskWithTimestamp(lines[k])})

C8_TaskPerTimestampedUserLine ==
    SummaryReturned =>
        /\ result.value.totalTasks = Len(TaskStartIndexes)
        /\ \A j \in 1..Len(TaskStartIndexes) :
              /\ result.value.tasks[j].timestamp = lines[TaskStartIndexes[j]].ts
              /\ result.value.tasks[j].userMessage =
                    truncateText(extractUserText(lines[TaskStartIndexes[j]].content),
                                 UserMessageLength)

C8_Witness ==
    /\ SummaryReturned
    /\ Len(lines) = MaxLines
    /\ result.value.totalTasks = 2
    /\ \E k \in 1..Len(lines) : TextStartsTask(lines[k]) /\ lines[k].ts = 0

(***************************************************************************)
(* C9.  Task ids are 1, 2, 3, ... without gap, totalTasks is the number of *)
(* tasks, and the task open at the end of the file is emitted last.        *)
(***************************************************************************)
C9_SequentialIdsAndFinalFlush ==
    SummaryReturned =>
        /\ \A j \in 1..Len(result.value.tasks) : result.value.tasks[j].id = j
        /\ result.value.totalTasks = Len(result.value.tasks)
        /\ TaskStartIndexes # <<>> =>
              /\ result.value.tasks # <<>>
              /\ LET last == result.value.tasks[Len(result.value.tasks)]
                     k    == TaskStartIndexes[Len(TaskStartIndexes)]
                 IN  /\ last.timestamp = lines[k].ts
                     /\ last.userMessage =
                           truncateText(extractUserText(lines[k].content),
                                        UserMessageLength)
                     /\ last.id = Len(TaskStartIndexes)

C9_Witness ==
    /\ SummaryReturned
    /\ Len(lines) = MaxLines
    /\ Len(result.value.tasks) = 2
    /\ lines[1].type = "user" /\ lines[2].type = "user" /\ lines[3].type = "assistant"
    /\ Len(result.value.tasks[2].toolCalls) > 0
    /\ result.value.tasks[2].id = 2

(***************************************************************************)
(* detectPhases on every list of at most MaxCalls tool calls.              *)
(***************************************************************************)
PhaseCalls ==
    {[name |-> n, input |-> NoInput, timestamp |-> 1] :
        n \in {"Read", "Glob", "Grep", "TodoWrite", "Edit", "Write", "WebSearch",
               "Task", "Bash"}}
    \cup {[name |-> "Task", input |-> Input(<<>>, <<>>, sub), timestamp |-> 1] :
            sub \in {"Explore", "Plan", "general-purpose"}}
    \cup {[name |-> "Bash", input |-> Input(<<>>, cmd, ""), timestamp |-> 1] :
            cmd \in {NpmTest, <<"ls">>, NonString, <<"npm", "test">>,
                     <<"x", "npm", "SP", "SP", "run", "SP", "lint">>,
                     <<"cargo", "SP", "build">>, <<"pytest", "s">>}}
    \cup {[name |-> "Read", input |-> Input(<<>>, NpmTest, "Plan"), timestamp |-> 1]}

PhaseSpecInit ==
    /\ toolCalls \in SeqsUpTo(PhaseCalls, MaxCalls)
    /\ phases = <<>>
    /\ ParserIdle /\ SegmentIdle /\ ExportIdle /\ CacheIdle

CallDetectPhases ==
    /\ phases = <<>>
    /\ phases' = detectPhases(toolCalls)
    /\ UNCHANGED <<toolCalls, parserVars, segmentVars, exportVars, cacheVars>>

PhaseSpecNext == CallDetectPhases
SpecPhases == PhaseSpecInit /\ [][PhaseSpecNext]_vars

(***************************************************************************)
(* C10.  The phases depend only on the set of tool calls: investigation    *)
(* iff some call is Read, Glob, Grep or Task with subagent_type 'Explore'; *)
(* planning iff some call is TodoWrite or Task with subagent_type 'Plan';  *)
(* implementation iff some call is Edit or Write; verification iff some    *)
(* Bash call has a command matching the test/build/lint pattern;           *)
(* 'immediate' iff none of the four; the result is never empty and         *)
(* 'immediate' stands alone.                                               *)
(***************************************************************************)
CallSet == Range(toolCalls)

C10_PhasesOfCallSet ==
    phases # <<>> =>
        LET P   == Range(phases)
            inv == \E t \in CallSet :
                      \/ t.name \in {"Read", "Glob", "Grep"}
                      \/ t.name = "Task" /\ t.input.subagent_type = "Explore"
            pln == \E t \in CallSet :
                      \/ t.name = "TodoWrite"
                      \/ t.name = "Task" /\ t.input.subagent_type = "Plan"
            imp == \E t \in CallSet : t.name = "Edit" \/ t.name = "Write"
            ver == \E t \in CallSet :
                      /\ t.name = "Bash" /\ t.input.command # NonString
                      /\ MatchesVerification(t.input.command)
        IN  /\ ("investigation" \in P) <=> inv
            /\ ("planning" \in P) <=> pln
            /\ ("implementation" \in P) <=> imp
            /\ ("verification" \in P) <=> ver
            /\ ("immediate" \in P) <=> ~(inv \/ pln \/ imp \/ ver)
            /\ ("immediate" \in P) => phases = <<"immediate">>
            /\ P \subseteq {"investigation", "planning", "implementation",
                            "verification", "immediate"}
            /\ Cardinality(P) = Len(phases)

C10_Witness ==
    /\ Len(toolCalls) = MaxCalls
    /\ toolCalls[1].name = "Bash" /\ toolCalls[1].input.command = NpmTest
    /\ toolCalls[2].name = "Task" /\ toolCalls[2].input.subagent_type = "Plan"
    /\ toolCalls[3].name = "Read"
    /\ phases = <<"investigation", "planning", "verification">>

(***************************************************************************)
(* Path segments of the export route.  A segment is a string given by its  *)
(* runs of equal characters, [c, n] being n times the character c: "a" is  *)
(* a lower-case letter, "Z" an upper-case letter, "0" a digit, "NUL" the   *)
(* character of code 0, "LF" a line feed.  <<>> is the empty string.       *)
(***************************************************************************)
MaxSegmentLength == 256

SegmentChars == {"a", "Z", "0", "_", "-", ".", "/", "\\", "NUL", "LF", " "}

RunLengths == {1, 2, MaxSegmentLength - 1, MaxSegmentLength, MaxSegmentLength + 1}

Run(c, n) == [c |-> c, n |-> n]

RECURSIVE Length(_)
Length(seg) == IF seg = <<>> THEN 0 ELSE Head(seg).n + Length(Tail(seg))

HasChar(seg, c) == \E k \in 1..Len(seg) : seg[k].c = c

\* segment.includes('..')
HasDotDot(seg) ==
    \/ \E k \in 1..Len(seg) : seg[k].c = "." /\ seg[k].n >= 2
    \/ \E k \in 1..(Len(seg) - 1) : seg[k].c = "." /\ seg[k + 1].c = "."

\* /^[a-zA-Z0-9_\-]+$/.test(segment)
WordChars == {"a", "Z", "0", "_", "-"}

MatchesWordPattern_Unanchored(seg) ==
    \E k \in 1..Len(seg) : seg[k].c \in WordChars

MatchesWordPattern(seg) ==
    Length(seg) >= 1 /\ \A k \in 1..Len(seg) : seg[k].c \in WordChars

isValidPathSegment(seg) ==
    IF seg = <<>> \/ Length(seg) = 0 \/ Length(seg) > MaxSegmentLength THEN FALSE
    ELSE IF HasDotDot(seg) \/ HasChar(seg, "/") \/ HasChar(seg, "\\") THEN FALSE
    ELSE IF HasChar(seg, "NUL") THEN FALSE
    ELSE MatchesWordPattern(seg)

Segments ==
    SeqsUpTo({Run(c, n) : c \in SegmentChars, n \in RunLengths}, MaxRuns)

SegmentSpecInit ==
    /\ segment \in Segments
    /\ valid = "none"
    /\ ParserIdle /\ ExportIdle /\ PhaseIdle /\ CacheIdle

CallIsValidPathSegment ==
    /\ valid = "none"
    /\ valid' = IF isValidPathSegment(segment) THEN "accepted" ELSE "rejected"
    /\ UNCHANGED <<segment, parserVars, exportVars, phaseVars, cacheVars>>

SegmentSpecNext == CallIsValidPathSegment
SpecSegment == SegmentSpecInit /\ [][SegmentSpecNext]_vars

(***************************************************************************)
(* C4.  isValidPathSegment accepts exactly the strings of 1 to 256         *)
(* characters that are all in [A-Za-z0-9_-]; the empty string, a longer    *)
(* string and a string with '..', '/', '\' or NUL are rejected.            *)
(***************************************************************************)
CharCount(seg) ==
    LET sum[k \in 0..Len(seg)] == IF k = 0 THEN 0 ELSE sum[k - 1] + seg[k].n
    IN  sum[Len(seg)]

C4_ValidSegmentCharacterisation ==
    valid # "none" =>
        /\ (valid = "accepted") <=>
              /\ CharCount(segment) >= 1
              /\ CharCount(segment) <= 256
              /\ \A k \in 1..Len(segment) :
                    segment[k].c \in {"a", "Z", "0", "_", "-"}
        /\ (\/ CharCount(segment) = 0
            \/ CharCount(segment) > 256
            \/ \E k \in 1..Len(segment) : segment[k].c \in {"/", "\\", "NUL", "."})
              => valid = "rejected"

C4_Witness ==
    /\ valid = "accepted"
    /\ Len(segment) = MaxRuns
    /\ CharCount(segment) = 256
    /\ segment[1].c = "-"

(***************************************************************************)
(* The export route, GET (src/app/api/export/route.ts).  The request is    *)
(* [project, session, format]; a missing query parameter is the empty      *)
(* string, which the handler treats like null.  Each action is one step of *)
(* the handler; pc is the step it has reached.  Whether the session file   *)
(* holds a Session is the file system's answer at the time of the call.    *)
(***************************************************************************)
VALID_FORMATS == {"markdown", "json", "html"}

ExportSegments ==
    { <<>>,
      <<Run("a", 4)>>,
      <<Run("a", 3), Run("-", 1), Run("0", 3), Run("_", 1), Run("Z", 3)>>,
      <<Run(".", 2), Run("/", 1), Run("a", 3)>>,
      <<Run("a", 1), Run("/", 1), Run("a", 1)>>,
      <<Run("a", 1), Run("NUL", 1), Run("a", 1)>>,
      <<Run("a", 300)>>,
      <<Run("a", 1), Run(" ", 1), Run("a", 1)>> }

ExportSpecInit ==
    /\ request \in [project : ExportSegments, session : ExportSegments,
                    format : VALID_FORMATS \cup {"", "pdf"}]
    /\ pc = "required"
    /\ response = 0
    /\ fsCalls = <<>>
    /\ ParserIdle /\ SegmentIdle /\ PhaseIdle /\ CacheIdle

Respond(status) == pc' = "done" /\ response' = status

FsCall(fn) == [fn |-> fn, project |-> request.project, session |-> request.session]

\* if (!project || !session)
CheckRequired ==
    /\ pc = "required"
    /\ IF request.project = <<>> \/ request.session = <<>>
       THEN Respond(400)
       ELSE pc' = "segments" /\ UNCHANGED response
    /\ UNCHANGED <<request, fsCalls, parserVars, segmentVars, phaseVars, cacheVars>>

SegmentsRejected_OnlyIfBoth(project, session) ==
    ~isValidPathSegment(project) /\ ~isValidPathSegment(session)

SegmentsRejected(project, session) ==
    ~isValidPathSegment(project) \/ ~isValidPathSegment(session)

\* if (!isValidPathSegment(project) || !isValidPathSegment(session))
ValidateSegments ==
    /\ pc = "segments"
    /\ IF SegmentsRejected(request.project, request.session)
       THEN Respond(400)
       ELSE pc' = "format" /\ UNCHANGED response
    /\ UNCHANGED <<request, fsCalls, parserVars, segmentVars, phaseVars, cacheVars>>

\* if (!format || !VALID_FORMATS.includes(format))
ValidateFormat ==
    /\ pc = "format"
    /\ IF request.format = "" \/ request.format \notin VALID_FORMATS
       THEN Respond(400)
       ELSE pc' = "exists" /\ UNCHANGED response
    /\ UNCHANGED <<request, fsCalls, parserVars, segmentVars, phaseVars, cacheVars>>

\* const sessionData = getSession(project, session); if (!sessionData) 404
CheckSessionExists ==
    /\ pc = "exists"
    /\ fsCalls' = Append(fsCalls, FsCall("getSession"))
    /\ \E found \in BOOLEAN :
          IF found THEN pc' = "export" /\ UNCHANGED response ELSE Respond(404)
    /\ UNCHANGED <<request, parserVars, segmentVars, phaseVars, cacheVars>>

\* exportSession(project, session, options), which throws when it finds no
\* Session; the handler's catch answers 500.
ExportSession ==
    /\ pc = "export"
    /\ fsCalls' = Append(fsCalls, FsCall("exportSession"))
    /\ \E found \in BOOLEAN : IF found THEN Respond(200) ELSE Respond(500)
    /\ UNCHANGED <<request, parserVars, segmentVars, phaseVars, cacheVars>>

ExportSpecNext ==
    \/ CheckRequired
    \/ ValidateSegments
    \/ ValidateFormat
    \/ CheckSessionExists
    \/ ExportSession

SpecExport == ExportSpecInit /\ [][ExportSpecNext]_vars

(***************************************************************************)
(* C5.  getSession and exportSession are reached only after project and    *)
(* session have both passed isValidPathSegment; a request whose project or *)
(* session fails it ends with status 400 without any file-system access.   *)
(***************************************************************************)
BothSegmentsValid ==
    isValidPathSegment(request.project) /\ isValidPathSegment(request.session)

C5_ValidationBeforeFileSystem ==
    /\ (fsCalls # <<>> \/ pc \in {"exists", "export"}) => BothSegmentsValid
    /\ (pc = "done" /\ ~BothSegmentsValid) => (response = 400 /\ fsCalls = <<>>)

C5_Witness ==
    /\ pc = "done" /\ response = 400 /\ fsCalls = <<>>
    /\ isValidPathSegment(request.project)
    /\ request.session = <<Run(".", 2), Run("/", 1), Run("a", 3)>>
    /\ request.format = "json"

(***************************************************************************)
(* The entry points of parser.ts called with any identifiers on any of the *)
(* directory trees of EntryTrees.                                          *)
(***************************************************************************)
UsageOf(i, o) == Usage(<<i>>, <<o>>, <<>>, <<>>)

EntryLines ==
    { Malformed,
      Line("summary", 0, 0, 1, NoContent),
      Line("user", 1, 1, 0, StrContent(<<"x">>)),
      [Line("assistant", 2, 2, 0,
            ArrContent(<<TextBlock(<<"y">>),
                         ToolUse("Edit", Input(OtherPath, <<>>, ""))>>))
         EXCEPT !.usage = UsageOf(2, 1), !.model = 1] }

EntryFiles == SeqsUpTo(EntryLines, MaxLines)

OtherSession == <<"older">>

EntryTrees ==
    { NoTree,
      [state |-> "notdir", entries |-> <<>>],
      Root(<<>>),
      Root(<<Project(CleanProject, <<>>)>>),
      Root(<<[name |-> CleanProject, kind |-> "file", files |-> <<>>]>>),
      Root(<<[name |-> CleanProject, kind |-> "dangling", files |-> <<>>]>>),
      Root(<<Project(CleanProject,
                     <<SessionFile(CleanSession, "unreadable", <<>>)>>)>>) }
    \cup {Root(<<Project(CleanProject, <<SessionFile(CleanSession, "ok", ls)>>)>>) :
            ls \in EntryFiles}
    \cup {Root(<<[name |-> CleanProject, kind |-> "locked",
                  files |-> <<SessionFile(CleanSession, "ok", ls)>>]>>) :
            ls \in {<<Line("user", 1, 1, 0, StrContent(<<"x">>))>>}}
    \cup {Root(<<Project(CleanProject,
                   << SessionFile(OtherSession, "ok",
                                  <<Line("user", 1, 1, 0, StrContent(<<"x">>))>>),
                      [SessionFile(<<"agent-1">>, "ok", ls) EXCEPT !.agent = TRUE],
                      [SessionFile(<<"notes">>, "ok", ls) EXCEPT !.jsonl = FALSE],
                      SessionFile(CleanSession, "ok", ls) >>)>>) :
            ls \in {<<Line("user", 2, 1, 0, StrContent(<<"x">>))>>}}

EntryOps ==
    {"getProjects", "getSessions", "getSession", "getMessages", "getSessionSummary",
     "getSessionTokenStats"}

FileOps == {"getSession", "getMessages", "getSessionSummary", "getSessionTokenStats"}

EntryProjects == {CleanProject, <<"nope">>, <<"..", "/", "..">>, <<"..", "/", "evil">>}
EntrySessions == {CleanSession, <<"nope">>, <<"..", "/", "..", "/", "etc", "/", "passwd">>}

EntrySpecInit ==
    /\ call \in [op : EntryOps, project : EntryProjects, session : EntrySessions]
    /\ tree \in EntryTrees
    /\ outside \in FileStates
    /\ result = Pending
    /\ reads = {}
    /\ SegmentIdle /\ ExportIdle /\ PhaseIdle /\ CacheIdle

EntrySpecNext ==
    \/ CallGetProjects
    \/ CallGetSessions
    \/ CallGetSession
    \/ CallGetMessages
    \/ CallGetSessionSummary
    \/ CallGetSessionTokenStats

SpecEntry == EntrySpecInit /\ [][EntrySpecNext]_vars

(***************************************************************************)
(* C3.  On a missing data root, project directory or session file every    *)
(* entry point returns its empty value (the empty list for getProjects,    *)
(* getSessions and getMessages, null for getSession, getSessionSummary and *)
(* getSessionTokenStats) and throws nothing.                               *)
(***************************************************************************)
TargetMissing ==
    CASE call.op = "getProjects" -> tree.state = "missing"
      [] call.op = "getSessions" -> DirAt(tree, call.project) = "missing"
      [] OTHER -> FileAt(tree, call.project, call.session).state = "missing"

EmptyValueOf(op) ==
    IF op \in {"getProjects", "getSessions", "getMessages"} THEN Returned(<<>>)
    ELSE Returned(NullValue)

C3_MissingDegradesToEmpty ==
    (result # Pending /\ TargetMissing) => result = EmptyValueOf(call.op)

C3_Witness ==
    /\ call.op = "getSessionSummary" /\ result = Returned(NullValue)
    /\ tree.state = "dir" /\ call.project = CleanProject
    /\ DirAt(tree, call.project) = "dir"
    /\ call.session = <<"nope">>

(***************************************************************************)
(* C6.  For a projectName or sessionId that contains a path-traversal      *)
(* sequence, getMessages returns [] and getSession, getSessionSummary and  *)
(* getSessionTokenStats return null, and no file is read.                  *)
(***************************************************************************)
C6_TraversalRejectedUnread ==
    (call.op \in FileOps /\ result # Pending
     /\ (HasTraversal(call.project) \/ HasTraversal(call.session))) =>
        /\ result = EmptyValueOf(call.op)
        /\ reads = {}

(***************************************************************************)
(* The aggregate scans: searchSessions (search.ts), getTrends (trends.ts), *)
(* getInsights (insights.ts) and getAllTokenStats (parser.ts).  All four   *)
(* start from getProjects() and walk the '.jsonl' files of every project.  *)
(* For getTrends and getInsights the value modelled here is the list of    *)
(* the session files the scan has read and handed to its per-line loop, as *)
(* [project, session]; what each derives from the lines is modelled with   *)
(* the claims about it.  searchSessions and getAllTokenStats are modelled  *)
(* in full.                                                                *)
(***************************************************************************)
RECURSIVE ReadableFiles(_, _)
ReadableFiles(files, projectName) ==
    IF files = <<>> THEN <<>>
    ELSE LET f == Head(files)
             rest == ReadableFiles(Tail(files), projectName) IN
         IF f.state = "ok"                                  \* else: catch, skip
         THEN <<[project |-> projectName, session |-> f.name]>> \o rest
         ELSE rest

\* The loop over the projects with readdirSync inside try/catch (continue).
RECURSIVE GuardedScan(_, _)
GuardedScan(t, projects) ==
    IF projects = <<>> THEN <<>>
    ELSE LET projectName == Head(projects)
             rest == GuardedScan(t, Tail(projects)) IN
         IF DirAt(t, projectName) = "missing" THEN rest     \* existsSync is false
         ELSE IF DirAt(t, projectName) # "dir" THEN rest    \* readdirSync: catch
         ELSE ReadableFiles(SelectSeq(FilesAt(t, projectName), IsSessionFile),
                            projectName) \o rest

(***************************************************************************)
(* searchSessions (search.ts).  The query is [query, toolFilter, dateFrom, *)
(* dateTo]: the text searched for, the tool name ("" when absent) and the  *)
(* two dates (<<>> when absent, <<t>> for the time t); projectFilter is    *)
(* absent in the queries modelled.  toLowerCase maps the upper-case letter *)
(* tokens "X", "Y" and the tool names to lower case.  Positions in a text  *)
(* count from 0 as in the source; indexOf is -1 when nothing is found.     *)
(***************************************************************************)
MAX_MATCHES_PER_SESSION == 10
ContextChars == 50

Lower(c) ==
    CASE c = "X" -> "x" [] c = "Y" -> "y"
      [] c = "Read" -> "read" [] c = "READ" -> "read"
      [] c = "Edit" -> "edit" [] c = "Bash" -> "bash"
      [] OTHER -> c

toLowerCase(text) == [k \in 1..Len(text) |-> Lower(text[k])]

extractToolNames(content) ==
    IF content.kind = "arr"
    THEN SelectSeq(content.items, LAMBDA item : item.type = "tool_use" /\ item.name # "")
    ELSE <<>>

indexOf(text, term, from) ==
    LET found == {i \in from..(Len(text) - Len(term)) :
                    SubSeq(text, i + 1, i + Len(term)) = term}
    IN  IF found = {} THEN -1 ELSE CHOOSE i \in found : \A j \in found : i <= j

RECURSIVE CollapseSpace(_)
CollapseSpace(text) ==
    IF text = <<>> THEN <<>>
    ELSE IF Head(text) \in WhiteSpace
         THEN <<"SP">> \o CollapseSpace(TrimStart(Tail(text)))
         ELSE <<Head(text)>> \o CollapseSpace(Tail(text))

generateSnippet(text, matchStart, matchLength) ==
    LET snippetStart == IF matchStart - ContextChars > 0
                        THEN matchStart - ContextChars ELSE 0
        snippetEnd   == IF matchStart + matchLength + ContextChars < Len(text)
                        THEN matchStart + matchLength + ContextChars ELSE Len(text)
        snippet      == CollapseSpace(SubSeq(text, snippetStart + 1, snippetEnd))
    IN  (IF snippetStart > 0 THEN <<"...">> ELSE <<>>)
        \o snippet
        \o (IF snippetEnd < Len(text) THEN <<"...">> ELSE <<>>)

NextSearchPos_Overlapping(matchIndex, term) == matchIndex + 1

NextSearchPos(matchIndex, term) == matchIndex + Len(term)

RECURSIVE FindMatches(_, _, _, _, _)
FindMatches(matches, data, lineIndex, searchPos, term) ==
    LET text      == extractTextContent(data.content)
        textLower == toLowerCase(text)
    IN  IF ~(searchPos < Len(textLower) /\ Len(matches) < MAX_MATCHES_PER_SESSION)
        THEN matches
        ELSE LET matchIndex == indexOf(textLower, toLowerCase(term), searchPos) IN
             IF matchIndex = -1 THEN matches
             ELSE FindMatches(
                      Append(matches,
                             [messageRole |-> data.type,
                              snippet     |-> generateSnippet(text, matchIndex, Len(term)),
                              timestamp   |-> data.ts,
                              lineIndex   |-> lineIndex]),
                      data, lineIndex, NextSearchPos(matchIndex, term), term)

SearchInit(query) ==
    [matches |-> <<>>, sessionTimestamp |-> 0,
     sessionHasToolFilter |-> (query.toolFilter = "")]

SearchLine(st, data, lineIndex, query) ==
    IF ~data.ok THEN st
    ELSE LET st1 == IF data.ts # 0 /\ st.sessionTimestamp = 0
                    THEN [st EXCEPT !.sessionTimestamp = data.ts] ELSE st
             st2 == IF /\ query.toolFilter # "" /\ ~st1.sessionHasToolFilter
                       /\ data.type = "assistant" /\ Truthy(data.content)
                       /\ \E item \in Range(extractToolNames(data.content)) :
                             Lower(item.name) = Lower(query.toolFilter)
                    THEN [st1 EXCEPT !.sessionHasToolFilter = TRUE] ELSE st1
         IN  IF /\ data.type \in {"user", "assistant"}
                /\ Truthy(data.content) /\ data.ts # 0
                /\ extractTextContent(data.content) # <<>>
             THEN [st2 EXCEPT !.matches = FindMatches(@, data, lineIndex, 0, query.query)]
             ELSE st2

\* The loop over the lines: it is left once the matches have reached the cap.
RECURSIVE SearchLoop(_, _, _, _)
SearchLoop(st, ls, lineIndex, query) ==
    IF lineIndex >= Len(ls) \/ Len(st.matches) >= MAX_MATCHES_PER_SESSION THEN st
    ELSE SearchLoop(SearchLine(st, ls[lineIndex + 1], lineIndex, query),
                    ls, lineIndex + 1, query)

EndOfLocalDay(time, offset) ==                      \* setHours(23, 59, 59, 999)
    ((time + offset) \div UnitsPerDay) * UnitsPerDay + UnitsPerDay - 1 - offset

DateFilterDrops(sessionTimestamp, query, offset) ==
    /\ sessionTimestamp # 0 /\ (query.dateFrom # <<>> \/ query.dateTo # <<>>)
    /\ \/ query.dateFrom # <<>> /\ sessionTimestamp < query.dateFrom[1]
       \/ query.dateTo # <<>>
          /\ sessionTimestamp > EndOfLocalDay(query.dateTo[1], offset)

\* One session file: the result it adds to the results, if any.
searchFile(ls, projectName, sessionId, query, offset) ==
    LET st == SearchLoop(SearchInit(query), ls, 0, query) IN
    IF DateFilterDrops(st.sessionTimestamp, query, offset) THEN <<>>
    ELSE IF query.toolFilter # "" /\ ~st.sessionHasToolFilter THEN <<>>
    ELSE IF st.matches = <<>> THEN <<>>
    ELSE <<[sessionId |-> sessionId, project |-> projectName,
            sessionTimestamp |-> st.sessionTimestamp,
            matches |-> st.matches, totalMatches |-> Len(st.matches)]>>

RECURSIVE SearchFiles(_, _, _, _)
SearchFiles(t, files, query, offset) ==
    IF files = <<>> THEN <<>>
    ELSE LET f == Head(files) IN
         searchFile(FileAt(t, f.project, f.session).lines, f.project, f.session,
                    query, offset)
         \o SearchFiles(t, Tail(files), query, offset)

RECURSIVE InsertByMatches(_, _)
InsertByMatches(sorted, x) ==
    IF sorted = <<>> THEN <<x>>
    ELSE IF Head(sorted).totalMatches >= x.totalMatches
         THEN <<Head(sorted)>> \o InsertByMatches(Tail(sorted), x)
         ELSE <<x>> \o sorted

RECURSIVE SortByMatches(_, _)
SortByMatches(sorted, rest) ==
    IF rest = <<>> THEN sorted
    ELSE SortByMatches(InsertByMatches(sorted, Head(rest)), Tail(rest))

searchSessions(t, query, offset) ==
    IF TrimEnd(TrimStart(query.query)) = <<>> THEN Returned(<<>>)
    ELSE LET projects == getProjects(t) IN
         IF projects.status = "threw" THEN Threw
         ELSE Returned(SortByMatches(<<>>,
                  SearchFiles(t, GuardedScan(t, projects.value), query, offset)))

getTrends(t) ==
    LET projects == getProjects(t) IN
    IF projects.status = "threw" THEN Threw
    ELSE Returned(GuardedScan(t, projects.value))

getInsights(t) ==
    LET projects == getProjects(t) IN
    IF projects.status = "threw" THEN Threw
    ELSE Returned(GuardedScan(t, projects.value))

RECURSIVE InsertNewestStats(_, _)
InsertNewestStats(sorted, x) ==
    IF sorted = <<>> THEN <<x>>
    ELSE IF Head(sorted).timestamp >= x.timestamp
         THEN <<Head(sorted)>> \o InsertNewestStats(Tail(sorted), x)
         ELSE <<x>> \o sorted

RECURSIVE SortNewestStats(_, _)
SortNewestStats(sorted, rest) ==
    IF rest = <<>> THEN sorted
    ELSE SortNewestStats(InsertNewestStats(sorted, Head(rest)), Tail(rest))

RECURSIVE StatsOfFiles(_, _)
StatsOfFiles(files, projectName) ==
    IF files = <<>> THEN <<>>
    ELSE LET f == Head(files)
             stats == getSessionTokenStats(f.state, f.lines, projectName, f.name).value
             rest == StatsOfFiles(Tail(files), projectName) IN
         IF ~stats.null /\ (stats.usage.inputTokens > 0 \/ stats.usage.outputTokens > 0)
         THEN <<stats>> \o rest
         ELSE rest

\* The loop over the projects of getAllTokenStats: readdirSync is not guarded.
RECURSIVE StatsScan(_, _)
StatsScan(t, projects) ==
    IF projects = <<>> THEN [threw |-> FALSE, stats |-> <<>>]
    ELSE LET projectName == Head(projects)
             rest == StatsScan(t, Tail(projects)) IN
         IF DirAt(t, projectName) = "missing" THEN rest     \* existsSync is false
         ELSE IF DirAt(t, projectName) # "dir"              \* readdirSync throws
              THEN [threw |-> TRUE, stats |-> <<>>]
              ELSE [rest EXCEPT
                      !.stats = StatsOfFiles(SelectSeq(FilesAt(t, projectName),
                                                       IsSessionFile),
                                             projectName) \o @]

\* Whether the scan of getAllTokenStats gets a SessionTokenStats, whose
\* projectName getSessionTokenStats decodes, before it ends or throws.
RECURSIVE ScanDecodes(_, _)
ScanDecodes(t, projects) ==
    IF projects = <<>> THEN FALSE
    ELSE LET projectName == Head(projects) IN
         IF DirAt(t, projectName) = "missing" THEN ScanDecodes(t, Tail(projects))
         ELSE IF DirAt(t, projectName) # "dir" THEN FALSE
         ELSE \/ \E f \in Range(SelectSeq(FilesAt(t, projectName), IsSessionFile)) :
                    f.state = "ok"
              \/ ScanDecodes(t, Tail(projects))

StatsScanDecodes(t) ==
    getProjects(t).status = "returned" /\ ScanDecodes(t, getProjects(t).value)

getAllTokenStats(t) ==
    LET projects == getProjects(t) IN
    IF projects.status = "threw" THEN Threw
    ELSE LET scan == StatsScan(t, projects.value) IN
         IF scan.threw THEN Threw
         ELSE Returned(SortNewestStats(<<>>, scan.stats))

CallSearchSessions ==
    /\ call.op = "searchSessions" /\ result = Pending
    /\ result' = searchSessions(tree, call.query, call.offset)
    /\ Decoding("search", result'.status = "returned" /\ result'.value # <<>>)
    /\ UNCHANGED <<call, tree, outside, reads, segmentVars, exportVars, phaseVars>>

CallGetTrends ==
    /\ call.op = "getTrends" /\ result = Pending
    /\ result' = getTrends(tree)
    /\ Decoding("trends", result'.status = "returned" /\ result'.value # <<>>)
    /\ UNCHANGED <<call, tree, outside, reads, segmentVars, exportVars, phaseVars>>

CallGetInsights ==
    /\ call.op = "getInsights" /\ result = Pending
    /\ result' = getInsights(tree)
    /\ UNCHANGED <<call, tree, outside, reads, segmentVars, exportVars, phaseVars, cacheVars>>

CallGetAllTokenStats ==
    /\ call.op = "getAllTokenStats" /\ result = Pending
    /\ result' = getAllTokenStats(tree)
    /\ Decoding("parser", StatsScanDecodes(tree))
    /\ UNCHANGED <<call, tree, outside, reads, segmentVars, exportVars, phaseVars>>

(***************************************************************************)
(* The data roots of the scans: at most MaxEntries entries of distinct     *)
(* names, each a project with session files, a plain file, a dangling      *)
(* link or a directory that cannot be listed.                              *)
(***************************************************************************)
UsageLine(ts, i, o) ==
    [Line("assistant", ts, 1, 0, StrContent(<<"x">>)) EXCEPT !.usage = UsageOf(i, o)]

ScanFileSets ==
    { <<>>,
      <<SessionFile(<<"s1">>, "ok", <<UsageLine(1, 2, 1)>>)>>,
      <<SessionFile(<<"s1">>, "unreadable", <<>>),
        SessionFile(<<"s2">>, "ok", <<Malformed, UsageLine(2, 1, 0)>>)>>,
      <<SessionFile(<<"s1">>, "ok", <<Line("user", 1, 1, 0, StrContent(<<"x">>))>>),
        [SessionFile(<<"agent-1">>, "ok", <<UsageLine(1, 1, 1)>>) EXCEPT !.agent = TRUE]>> }

ScanNames == {<<"p1">>, <<"p2">>, <<"p3">>}

ScanEntries ==
    {[name |-> n, kind |-> "dir", files |-> fs] : n \in ScanNames, fs \in ScanFileSets}
    \cup {[name |-> n, kind |-> k, files |-> <<>>] :
            n \in ScanNames, k \in {"file", "dangling"}}
    \cup {[name |-> n, kind |-> "locked", files |-> fs] :
            n \in ScanNames,
            fs \in {<<SessionFile(<<"s1">>, "ok", <<UsageLine(1, 2, 1)>>)>>}}

DistinctNames(entries) ==
    \A j, k \in 1..Len(entries) : j # k => entries[j].name # entries[k].name

ScanQuery == [query |-> <<"x">>, toolFilter |-> "", dateFrom |-> <<>>, dateTo |-> <<>>]

ScanOps == {"searchSessions", "getTrends", "getInsights", "getAllTokenStats"}

ScanSpecInit ==
    /\ call \in [op : ScanOps, project : {<<>>}, session : {<<>>},
                  query : {ScanQuery}, offset : {0}]
    /\ \E entries \in SeqsUpTo(ScanEntries, MaxEntries) :
          DistinctNames(entries) /\ tree = Root(entries)
    /\ outside = "missing"
    /\ result = Pending
    /\ reads = {}
    /\ SegmentIdle /\ ExportIdle /\ PhaseIdle /\ CacheIdle

ScanSpecNext ==
    \/ CallSearchSessions
    \/ CallGetTrends
    \/ CallGetInsights
    \/ CallGetAllTokenStats

SpecScan == ScanSpecInit /\ [][ScanSpecNext]_vars

(***************************************************************************)
(* C7.  No unreadable or unparseable unit (a directory entry, a project    *)
(* directory, a session file, a line) aborts an aggregate scan: the scan   *)
(* throws nothing and returns what all the other units contribute.         *)
(***************************************************************************)
ScannableFiles ==
    UNION { {[project |-> e.name, session |-> f.name] :
                f \in {f \in Range(e.files) : IsSessionFile(f) /\ f.state = "ok"}} :
            e \in {e \in Range(tree.entries) : e.kind = "dir"} }

C7_ScanNeverAborts ==
    result # Pending =>
        /\ result.status = "returned"
        /\ call.op \in {"getTrends", "getInsights"} =>
              Range(result.value) = ScannableFiles
        /\ call.op = "searchSessions" =>
              {[project |-> r.project, session |-> r.sessionId] :
                  r \in Range(result.value)} = ScannableFiles

(***************************************************************************)
(* C11.  The messages of getMessages are taken from user/assistant lines   *)
(* in file order, at most one per line, and there are no more messages     *)
(* than user/assistant lines with a non-empty extracted text.              *)
(***************************************************************************)
TextOf(data) ==
    IF data.content.kind = "str" THEN data.content.s
    ELSE IF data.content.kind = "arr" THEN JoinLF(TextParts(data.content.items))
    ELSE <<>>

MessageLineIndexes ==
    {k \in 1..Len(lines) : lines[k].ok /\ lines[k].type \in {"user", "assistant"}}

C11_MessagesInFileOrder ==
    (call.op = "getMessages" /\ result.status = "returned") =>
        /\ \E S \in SUBSET MessageLineIndexes :
              /\ Len(result.value) = Cardinality(S)
              /\ \A j \in 1..Cardinality(S) :
                    LET data == lines[Ascending(S)[j]] IN
                    /\ result.value[j].uuid = data.uuid
                    /\ result.value[j].type = data.type
                    /\ result.value[j].timestamp = data.ts
                    /\ result.value[j].content = TextOf(data)
        /\ Len(result.value) <=
              Cardinality({k \in MessageLineIndexes : TextOf(lines[k]) # <<>>})

C11_Witness ==
    /\ call.op = "getMessages" /\ result.status = "returned"
    /\ Len(lines) = MaxLines
    /\ lines[2].ok /\ lines[2].type = "user" /\ lines[2].uuid = 0
    /\ TextOf(lines[2]) # <<>>
    /\ Len(result.value) = 2
    /\ result.value[1].type = "user" /\ result.value[2].type = "assistant"

(***************************************************************************)
(* getSessionTokenStats on every file of TokenFiles: the lines vary in the *)
(* fields getSessionTokenStats reads (type, usage, model, timestamp).      *)
(***************************************************************************)
TokenLines ==
    { Malformed,
      Line("assistant", 2, 1, 0, StrContent(<<"x">>)),
      [Line("assistant", 1, 1, 0, StrContent(<<"x">>))
         EXCEPT !.usage = Usage(<<1>>, <<2>>, <<1>>, <<2>>), !.model = 1],
      [Line("assistant", 0, 1, 0, StrContent(<<"x">>))
         EXCEPT !.usage = Usage(<<2>>, <<>>, <<>>, <<1>>), !.model = 2],
      [Line("assistant", 1, 1, 0, NoContent)
         EXCEPT !.usage = Usage(<<>>, <<>>, <<>>, <<>>)],
      [Line("user", 2, 1, 0, StrContent(<<"x">>))
         EXCEPT !.usage = Usage(<<1>>, <<1>>, <<1>>, <<1>>), !.model = 2],
      [Line("assistant", 2, 1, 0, StrContent(<<"x">>)) EXCEPT !.model = 3] }

TokenFiles == SeqsUpTo(TokenLines, MaxLines)

TokenSpecInit == ParserInit("getSessionTokenStats", TokenFiles)
TokenSpecNext == CallGetSessionTokenStats
SpecTokens == TokenSpecInit /\ [][TokenSpecNext]_vars

(***************************************************************************)
(* C12.  Each of the four totals of getSessionTokenStats is the sum of the *)
(* counter over the assistant lines that carry a usage object, a counter   *)
(* the object lacks counting 0; no other line contributes.                 *)
(***************************************************************************)
RECURSIVE SumTo(_, _)
SumTo(f, n) == IF n = 0 THEN 0 ELSE f[n] + SumTo(f, n - 1)

CounterOf(data, field) ==
    IF data.ok /\ data.type = "assistant" /\ data.usage.present
       /\ data.usage[field] # <<>>
    THEN data.usage[field][1] ELSE 0

TotalOf(field) ==
    SumTo([k \in 1..Len(lines) |-> CounterOf(lines[k], field)], Len(lines))

C12_TokenTotalsAreSums ==
    (call.op = "getSessionTokenStats" /\ result.status = "returned"
     /\ ~result.value.null) =>
        /\ result.value.usage.inputTokens = TotalOf("input_tokens")
        /\ result.value.usage.outputTokens = TotalOf("output_tokens")
        /\ result.value.usage.cacheCreationInputTokens =
              TotalOf("cache_creation_input_tokens")
        /\ result.value.usage.cacheReadInputTokens =
              TotalOf("cache_read_input_tokens")

C12_Witness ==
    /\ call.op = "getSessionTokenStats" /\ result.status = "returned"
    /\ ~result.value.null
    /\ Len(lines) = MaxLines
    /\ lines[1].type = "user" /\ lines[1].usage.present
    /\ lines[2].type = "assistant" /\ lines[2].usage.present
    /\ lines[2].usage.output_tokens = <<>>
    /\ lines[3].type = "assistant" /\ lines[3].usage.present
    /\ result.value.usage.inputTokens = 3
    /\ result.value.usage.outputTokens = 2

(***************************************************************************)
(* getTokenAnalytics (parser.ts).  A time is a number of clock ticks since *)
(* the epoch, UnitsPerDay ticks to the day; offset is what the local time  *)
(* zone is ahead of UTC, in ticks.  periodStart is 'now' moved back by     *)
(* days days and then set to local midnight (setHours(0, 0, 0, 0)); the    *)
(* day of a session is the UTC date of its timestamp (toISOString).  The   *)
(* daily map keeps its entries in insertion order.                         *)
(***************************************************************************)
ZeroUsage ==
    [inputTokens |-> 0, outputTokens |-> 0, cacheCreationInputTokens |-> 0,
     cacheReadInputTokens |-> 0]

AddUsage(a, b) ==
    [inputTokens |-> a.inputTokens + b.inputTokens,
     outputTokens |-> a.outputTokens + b.outputTokens,
     cacheCreationInputTokens |->
         a.cacheCreationInputTokens + b.cacheCreationInputTokens,
     cacheReadInputTokens |-> a.cacheReadInputTokens + b.cacheReadInputTokens]

RECURSIVE SumUsage(_, _)
SumUsage(total, stats) ==
    IF stats = <<>> THEN total
    ELSE SumUsage(AddUsage(total, Head(stats).usage), Tail(stats))

DateOf(timestamp) == timestamp \div UnitsPerDay

periodStartOf_NoMidnight(now, days, offset) == now - days * UnitsPerDay

periodStartOf(now, days, offset) ==
    LET moved == now - days * UnitsPerDay IN
    ((moved + offset) \div UnitsPerDay) * UnitsPerDay - offset

InPeriod(stat, periodStart, now) ==
    stat.timestamp >= periodStart /\ stat.timestamp <= now

AddDaily_Overwrite(dailyMap, stat) ==
    LET date == DateOf(stat.timestamp)
        map  == IF \E k \in 1..Len(dailyMap) : dailyMap[k].date = date THEN dailyMap
                ELSE Append(dailyMap,
                            [date |-> date, usage |-> ZeroUsage, sessionCount |-> 0])
    IN  [k \in 1..Len(map) |->
            IF map[k].date = date
            THEN [map[k] EXCEPT !.usage = stat.usage, !.sessionCount = @ + 1]
            ELSE map[k]]

AddDaily(dailyMap, stat) ==
    LET date == DateOf(stat.timestamp)
        map  == IF \E k \in 1..Len(dailyMap) : dailyMap[k].date = date THEN dailyMap
                ELSE Append(dailyMap,
                            [date |-> date, usage |-> ZeroUsage, sessionCount |-> 0])
    IN  [k \in 1..Len(map) |->
            IF map[k].date = date
            THEN [map[k] EXCEPT !.usage = AddUsage(@, stat.usage),
                                !.sessionCount = @ + 1]
            ELSE map[k]]

RECURSIVE GroupByDay(_, _)
GroupByDay(dailyMap, stats) ==
    IF stats = <<>> THEN dailyMap
    ELSE GroupByDay(AddDaily(dailyMap, Head(stats)), Tail(stats))

RECURSIVE InsertByDate(_, _)
InsertByDate(sorted, x) ==
    IF sorted = <<>> THEN <<x>>
    ELSE IF Head(sorted).date <= x.date
         THEN <<Head(sorted)>> \o InsertByDate(Tail(sorted), x)
         ELSE <<x>> \o sorted

RECURSIVE SortByDate(_, _)
SortByDate(sorted, rest) ==
    IF rest = <<>> THEN sorted
    ELSE SortByDate(InsertByDate(sorted, Head(rest)), Tail(rest))

getTokenAnalytics(t, days, now, offset) ==
    LET allStats == getAllTokenStats(t) IN
    IF allStats.status = "threw" THEN Threw
    ELSE LET periodStart   == periodStartOf(now, days, offset)
             filteredStats == SelectSeq(allStats.value,
                                        LAMBDA stat : InPeriod(stat, periodStart, now))
         IN  Returned([totalUsage   |-> SumUsage(ZeroUsage, filteredStats),
                       dailyStats   |-> SortByDate(<<>>, GroupByDay(<<>>, filteredStats)),
                       sessionStats |-> filteredStats,
                       periodStart  |-> periodStart,
                       periodEnd    |-> now])

CallGetTokenAnalytics ==
    /\ call.op = "getTokenAnalytics" /\ result = Pending
    /\ result' = getTokenAnalytics(tree, call.days, call.now, call.offset)
    /\ Decoding("parser", StatsScanDecodes(tree))
    /\ UNCHANGED <<call, tree, outside, reads, segmentVars, exportVars, phaseVars>>

(***************************************************************************)
(* getTokenAnalytics on a project of at most MaxSessions session files:    *)
(* one assistant line with usage each, stamped at any tick or not at all   *)
(* (the session then takes the time of the scan, CurrentTime), or without  *)
(* tokens.  The call is made at 'now', not before the scan.                *)
(***************************************************************************)
AnalyticsLines ==
    {UsageLine(ts, 1 + (ts % 2), 1) : ts \in 0..6} \cup {UsageLine(1, 0, 0)}

AnalyticsNames == <<<<"s1">>, <<"s2">>, <<"s3">>, <<"s4">>, <<"s5">>>>

AnalyticsTrees ==
    { Root(<<Project(CleanProject,
                     [k \in 1..Len(ls) |-> SessionFile(AnalyticsNames[k], "ok",
                                                       <<ls[k]>>)])>>) :
        ls \in SeqsUpTo(AnalyticsLines, MaxSessions) }

AnalyticsSpecInit ==
    /\ call \in [op : {"getTokenAnalytics"}, project : {<<>>}, session : {<<>>},
                  days : {0, 1, 2}, now : {CurrentTime, 4, 5}, offset : {0, 1}]
    /\ tree \in AnalyticsTrees
    /\ outside = "missing"
    /\ result = Pending
    /\ reads = {}
    /\ SegmentIdle /\ ExportIdle /\ PhaseIdle /\ CacheIdle

SpecAnalytics == AnalyticsSpecInit /\ [][CallGetTokenAnalytics]_vars

AnalyticsReturned == call.op = "getTokenAnalytics" /\ result.status = "returned"

(***************************************************************************)
(* C13.  totalUsage is the field-wise sum of usage over sessionStats, the  *)
(* field-wise sum of usage over dailyStats is totalUsage, and the session  *)
(* counts of dailyStats add up to the number of entries of sessionStats.   *)
(***************************************************************************)
UsageFields ==
    {"inputTokens", "outputTokens", "cacheCreationInputTokens", "cacheReadInputTokens"}

FieldSum(entries, field) ==
    SumTo([k \in 1..Len(entries) |-> entries[k].usage[field]], Len(entries))

C13_TotalsAgree ==
    AnalyticsReturned =>
        LET r == result.value IN
        /\ \A field \in UsageFields :
              /\ r.totalUsage[field] = FieldSum(r.sessionStats, field)
              /\ FieldSum(r.dailyStats, field) = r.totalUsage[field]
        /\ SumTo([k \in 1..Len(r.dailyStats) |-> r.dailyStats[k].sessionCount],
                 Len(r.dailyStats)) = Len(r.sessionStats)

C13_Witness ==
    /\ AnalyticsReturned
    /\ Len(result.value.sessionStats) = 3
    /\ Len(result.value.dailyStats) = 2
    /\ result.value.dailyStats[1].sessionCount = 2
    /\ result.value.sessionStats[1].timestamp > result.value.sessionStats[3].timestamp
    /\ result.value.totalUsage.inputTokens = 5

(***************************************************************************)
(* C19.  The statement as the specification words it: sessionStats holds   *)
(* exactly the sessions of getAllTokenStats whose timestamp t satisfies    *)
(* now - days <= t <= now.                                                 *)
(***************************************************************************)
AllSessions == getAllTokenStats(tree).value

C19_KeptFromNowMinusDays ==
    AnalyticsReturned =>
        result.value.sessionStats =
            SelectSeq(AllSessions,
                      LAMBDA stat : /\ call.now - call.days * UnitsPerDay <= stat.timestamp
                                    /\ stat.timestamp <= call.now)

(***************************************************************************)
(* C19, amended.  The period starts at the local midnight that begins the  *)
(* day 'days' days before now: sessionStats holds exactly the sessions     *)
(* whose timestamp t satisfies midnight <= t <= now, in the order of       *)
(* getAllTokenStats.                                                       *)
(***************************************************************************)
LocalMidnightBefore(time) ==
    CHOOSE m \in (time - UnitsPerDay + 1)..time : (m + call.offset) % UnitsPerDay = 0

C19_KeptFromLocalMidnight ==
    AnalyticsReturned =>
        LET midnight == LocalMidnightBefore(call.now - call.days * UnitsPerDay) IN
        /\ result.value.periodStart = midnight
        /\ result.value.sessionStats =
              SelectSeq(AllSessions,
                        LAMBDA stat : midnight <= stat.timestamp
                                      /\ stat.timestamp <= call.now)

C19_Witness ==
    /\ AnalyticsReturned
    /\ Len(AllSessions) = 3
    /\ Len(result.value.sessionStats) = 1
    /\ result.value.sessionStats[1].timestamp < call.now - call.days * UnitsPerDay
    /\ AllSessions[1].timestamp > call.now
    /\ AllSessions[3].timestamp < result.value.periodStart

(***************************************************************************)
(* searchSessions on a project of one or two session files.  The first     *)
(* file is any file of SearchSessionFiles; the texts hold the query once,  *)
(* several times, in another case, overlapping with itself, ten times in   *)
(* one line, and at both ends of a text longer than a snippet.             *)
(***************************************************************************)
TenTimes == [k \in 1..MAX_MATCHES_PER_SESSION |-> "x"]

LongText ==
    [k \in 1..(2 * ContextChars + 10) |->
        IF k = 1 \/ k = 2 * ContextChars + 10 THEN "x"
        ELSE IF k \in {2, 3} THEN "\n" ELSE "y"]

SearchLines ==
    { Malformed,
      Line("user", 1, 1, 0, StrContent(<<"x", "y", "X">>)),
      Line("user", 0, 1, 0, StrContent(<<"x">>)),
      Line("user", 2, 1, 0, StrContent(TenTimes)),
      Line("user", 1, 1, 0, StrContent(LongText)),
      Line("assistant", 1, 1, 0,
           ArrContent(<<TextBlock(<<"x", "x", "x">>),
                        ToolUse("Read", Input(SomePath, <<>>, ""))>>)),
      Line("assistant", 0, 1, 0, ArrContent(<<ToolUse("read", NoInput)>>)) }

SearchSessionFiles == SeqsUpTo(SearchLines, MaxLines)

SecondFiles ==
    { <<>>,
      <<SessionFile(<<"s2">>, "ok", <<Line("user", 1, 1, 0, StrContent(TenTimes))>>)>> }

SearchTrees ==
    { Root(<<Project(CleanProject, <<SessionFile(<<"s1">>, "ok", ls)>> \o second)>>) :
        ls \in SearchSessionFiles, second \in SecondFiles }

SearchQuery(text, tool, from, to) ==
    [query |-> text, toolFilter |-> tool, dateFrom |-> from, dateTo |-> to]

SearchCalls ==
    {[op |-> "searchSessions", project |-> <<>>, session |-> <<>>,
      query |-> q[1], offset |-> q[2]] :
        q \in { <<SearchQuery(<<"x">>, "", <<>>, <<>>), 0>>,
                <<SearchQuery(<<"X", "x">>, "", <<>>, <<>>), 0>>,
                <<SearchQuery(<<"SP">>, "", <<>>, <<>>), 0>>,
                <<SearchQuery(<<"x">>, "read", <<>>, <<>>), 0>>,
                <<SearchQuery(<<"x">>, "", <<2>>, <<>>), 0>>,
                <<SearchQuery(<<"x">>, "", <<>>, <<1>>), 0>>,
                <<SearchQuery(<<"x">>, "READ", <<>>, <<1>>), 1>> }}

SearchSpecInit ==
    /\ call \in SearchCalls
    /\ tree \in SearchTrees
    /\ outside = "missing"
    /\ result = Pending
    /\ reads = {}
    /\ SegmentIdle /\ ExportIdle /\ PhaseIdle /\ CacheIdle

SpecSearch == SearchSpecInit /\ [][CallSearchSessions]_vars

SearchReturned == call.op = "searchSessions" /\ result.status = "returned"

\* The lines of the session file a search result is about.
LinesOf(r) == FileAt(tree, r.project, r.sessionId).lines

(***************************************************************************)
(* The occurrences of the query in a text, case-insensitive, not           *)
(* overlapping, from left to right: their start positions, counted from 0. *)
(***************************************************************************)
OccursAt(text, term, i) ==
    /\ i + Len(term) <= Len(text)
    /\ \A j \in 1..Len(term) : Lower(text[i + j]) = Lower(term[j])

RECURSIVE Occurrences(_, _, _)
Occurrences(text, term, from) ==
    LET starts == {i \in from..Len(text) : OccursAt(text, term, i)} IN
    IF starts = {} THEN <<>>
    ELSE LET first == CHOOSE i \in starts : \A j \in starts : i <= j IN
         <<first>> \o Occurrences(text, term, first + Len(term))

IsMessageLine(data) == data.ok /\ data.type \in {"user", "assistant"}

OccurrenceCount(ls, term, searched(_)) ==
    SumTo([k \in 1..Len(ls) |->
              IF searched(ls[k]) THEN Len(Occurrences(TextOf(ls[k]), term, 0)) ELSE 0],
          Len(ls))

Least(a, b) == IF a <= b THEN a ELSE b

(***************************************************************************)
(* C14.  The statement as the specification words it: totalMatches is the  *)
(* number of matches listed and is min(10, N), N counting the occurrences  *)
(* in the text of all user and assistant lines of the session.             *)
(***************************************************************************)
C14_TotalIsCappedCountOfAllLines ==
    SearchReturned =>
        \A r \in Range(result.value) :
            /\ r.totalMatches = Len(r.matches)
            /\ r.totalMatches =
                  Least(MAX_MATCHES_PER_SESSION,
                        OccurrenceCount(LinesOf(r), call.query.query, IsMessageLine))

(***************************************************************************)
(* C14, amended.  N counts the occurrences in the text of the user and     *)
(* assistant lines that carry a timestamp; the matches are the first       *)
(* min(10, N) of these occurrences, line after line in file order and from *)
(* left to right within a line.                                            *)
(***************************************************************************)
IsSearchedLine(data) == IsMessageLine(data) /\ data.ts # 0

MatchesOfLine(data, lineIndex, term) ==
    LET at == Occurrences(TextOf(data), term, 0) IN
    [j \in 1..Len(at) |->
        [messageRole |-> data.type,
         snippet     |-> generateSnippet(TextOf(data), at[j], Len(term)),
         timestamp   |-> data.ts,
         lineIndex   |-> lineIndex]]

RECURSIVE ExpectedMatches(_, _, _)
ExpectedMatches(ls, lineIndex, term) ==
    IF lineIndex >= Len(ls) THEN <<>>
    ELSE (IF IsSearchedLine(ls[lineIndex + 1])
          THEN MatchesOfLine(ls[lineIndex + 1], lineIndex, term) ELSE <<>>)
         \o ExpectedMatches(ls, lineIndex + 1, term)

C14_TotalIsCappedCountOfTimestampedLines ==
    SearchReturned =>
        \A r \in Range(result.value) :
            LET expected == ExpectedMatches(LinesOf(r), 0, call.query.query)
                total    == Least(MAX_MATCHES_PER_SESSION, Len(expected))
            IN  /\ r.totalMatches = Len(r.matches)
                /\ r.totalMatches = total
                /\ total = Least(MAX_MATCHES_PER_SESSION,
                                 OccurrenceCount(LinesOf(r), call.query.query,
                                                 IsSearchedLine))
                /\ r.matches = SubSeq(expected, 1, total)
                /\ \A j \in 1..(Len(r.matches) - 1) :
                      r.matches[j].lineIndex <= r.matches[j + 1].lineIndex

C14_Witness ==
    /\ SearchReturned
    /\ \E r \in Range(result.value) :
          /\ r.totalMatches = MAX_MATCHES_PER_SESSION
          /\ Len(ExpectedMatches(LinesOf(r), 0, call.query.query)) = 12
          /\ r.matches[1].lineIndex = 1 /\ r.matches[3].lineIndex = 2
          /\ LinesOf(r)[1].type = "user" /\ LinesOf(r)[1].ts = 0
          /\ TextOf(LinesOf(r)[1]) # <<>>

(***************************************************************************)
(* C15.  With a toolFilter, a session is in the results exactly when it    *)
(* has a text match, passes the date filter and some assistant line of the *)
(* file, wherever it lies, has a tool_use block of that name, compared     *)
(* without regard to case.                                                 *)
(***************************************************************************)
FirstTimestamp(ls) ==
    LET stamped == {k \in 1..Len(ls) : ls[k].ok /\ ls[k].ts # 0} IN
    IF stamped = {} THEN 0
    ELSE ls[CHOOSE k \in stamped : \A j \in stamped : k <= j].ts

UsesTool(ls, tool) ==
    \E k \in 1..Len(ls) :
        /\ ls[k].ok /\ ls[k].type = "assistant" /\ ls[k].content.kind = "arr"
        /\ \E b \in Range(ls[k].content.items) :
              b.type = "tool_use" /\ b.name # "" /\ Lower(b.name) = Lower(tool)

C15_ToolFilterSeesWholeFile ==
    (SearchReturned /\ call.query.toolFilter # ""
     /\ TrimEnd(TrimStart(call.query.query)) # <<>>) =>
        \A f \in Range(FilesAt(tree, CleanProject)) :
            (\E r \in Range(result.value) : r.sessionId = f.name)
            <=> /\ OccurrenceCount(f.lines, call.query.query, IsSearchedLine) >= 1
                /\ ~DateFilterDrops(FirstTimestamp(f.lines), call.query, call.offset)
                /\ UsesTool(f.lines, call.query.toolFilter)

(***************************************************************************)
(* C16.  The statement as the specification words it: of several summary   *)
(* lines with a non-empty text, the first in file order gives the summary  *)
(* of the Session.                                                         *)
(***************************************************************************)
SessionReturned ==
    call.op = "getSession" /\ result.status = "returned" /\ ~result.value.null

SummaryIndexes ==
    {k \in 1..Len(lines) :
        lines[k].ok /\ lines[k].type = "summary" /\ lines[k].summary # 0}

FirstOf(S) == CHOOSE k \in S : \A j \in S : k <= j
LastOf(S)  == CHOOSE k \in S : \A j \in S : j <= k

C16_FirstSummaryWins ==
    (SessionReturned /\ SummaryIndexes # {}) =>
        result.value.summary = lines[FirstOf(SummaryIndexes)].summary

(***************************************************************************)
(* C16, amended.  The last summary line with a non-empty text gives the    *)
(* summary: every such line overwrites the one before; without any, the    *)
(* summary is null.                                                        *)
(***************************************************************************)
C16_LastSummaryWins ==
    SessionReturned =>
        result.value.summary =
            IF SummaryIndexes = {} THEN 0 ELSE lines[LastOf(SummaryIndexes)].summary

C16_Witness ==
    /\ SessionReturned
    /\ Cardinality(SummaryIndexes) = 2
    /\ lines[FirstOf(SummaryIndexes)].summary # lines[LastOf(SummaryIndexes)].summary
    /\ result.value.summary = lines[LastOf(SummaryIndexes)].summary

(***************************************************************************)
(* C17.  firstMessageTime is the timestamp of the first user/assistant     *)
(* line with a timestamp and lastMessageTime that of the last such line in *)
(* file order, whatever the timestamps are: it need not be the latest.     *)
(***************************************************************************)
TimedIndexes ==
    {k \in 1..Len(lines) :
        lines[k].ok /\ lines[k].type \in {"user", "assistant"} /\ lines[k].ts # 0}

C17_FirstAndLastInFileOrder ==
    SessionReturned =>
        /\ TimedIndexes # {}
        /\ result.value.firstMessageTime = lines[FirstOf(TimedIndexes)].ts
        /\ result.value.lastMessageTime = lines[LastOf(TimedIndexes)].ts

C17_Witness ==
    /\ SessionReturned
    /\ Cardinality(TimedIndexes) >= 2
    /\ result.value.firstMessageTime > result.value.lastMessageTime
    /\ \E k \in TimedIndexes : lines[k].ts > result.value.lastMessageTime

(***************************************************************************)
(* C18.  The statement as the specification words it: the tasks are in     *)
(* timestamp order for any input file.                                     *)
(***************************************************************************)
TasksInTimestampOrder ==
    \A j \in 1..(Len(result.value.tasks) - 1) :
        result.value.tasks[j].timestamp <= result.value.tasks[j + 1].timestamp

C18_TasksInTimestampOrder == SummaryReturned => TasksInTimestampOrder

(***************************************************************************)
(* C18, amended.  The tasks are in the file order of the lines that open   *)
(* them, each with the timestamp of its line; they are in timestamp order  *)
(* exactly when these lines are.                                           *)
(***************************************************************************)
C18_TasksInFileOrder ==
    SummaryReturned =>
        /\ \E S \in SUBSET {k \in 1..Len(lines) : lines[k].ok /\ lines[k].type = "user"} :
              /\ Cardinality(S) = Len(result.value.tasks)
              /\ \A j \in 1..Cardinality(S) :
                    /\ result.value.tasks[j].timestamp = lines[Ascending(S)[j]].ts
                    /\ result.value.tasks[j].userMessage =
                          truncateText(TextOf(lines[Ascending(S)[j]]), UserMessageLength)
        /\ TasksInTimestampOrder <=>
              \A i, j \in 1..Len(TaskStartIndexes) :
                  i < j => lines[TaskStartIndexes[i]].ts <= lines[TaskStartIndexes[j]].ts

C18_Witness ==
    /\ SummaryReturned
    /\ Len(result.value.tasks) = 2
    /\ result.value.tasks[1].timestamp > result.value.tasks[2].timestamp
    /\ result.value.tasks[1].userMessage # result.value.tasks[2].userMessage

(***************************************************************************)
(* getSessions on a project of at most MaxSessions session files whose     *)
(* last message times are in any order, some files holding no session.     *)
(***************************************************************************)
SessionsSpecInit ==
    /\ call = [op |-> "getSessions", project |-> CleanProject, session |-> <<>>]
    /\ tree \in AnalyticsTrees
    /\ outside = "missing"
    /\ result = Pending
    /\ reads = {}
    /\ SegmentIdle /\ ExportIdle /\ PhaseIdle /\ CacheIdle

SpecSessions == SessionsSpecInit /\ [][CallGetSessions]_vars

(***************************************************************************)
(* C20.  The list of getSessions is ordered by lastMessageTime, newest     *)
(* first: of two consecutive sessions the first is not the earlier one.    *)
(* The list holds each session file that has a Session, once.              *)
(***************************************************************************)
C20_SessionsNewestFirst ==
    (call.op = "getSessions" /\ result.status = "returned") =>
        /\ \A j \in 1..(Len(result.value) - 1) :
              result.value[j].lastMessageTime >= result.value[j + 1].lastMessageTime
        /\ \A f \in Range(FilesAt(tree, call.project)) :
              Cardinality({j \in 1..Len(result.value) : result.value[j].id = f.name})
                  = IF IsSessionFile(f) /\ f.state = "ok"
                       /\ \E k \in 1..Len(f.lines) :
                             /\ f.lines[k].ok /\ f.lines[k].ts # 0
                             /\ f.lines[k].type \in {"user", "assistant"}
                    THEN 1 ELSE 0

C20_Witness ==
    /\ call.op = "getSessions" /\ result.status = "returned"
    /\ Len(result.value) = 3
    /\ result.value[1].id = <<"s3">> /\ result.value[3].id = <<"s1">>
    /\ result.value[1].lastMessageTime > result.value[2].lastMessageTime
    /\ result.value[2].lastMessageTime > result.value[3].lastMessageTime

(***************************************************************************)
(* C23.  The statement as the specification words it: getMessages returns  *)
(* one Message for every user or assistant line whose extracted text is    *)
(* non-empty, and for no other line.                                       *)
(***************************************************************************)
MessagesReturned == call.op = "getMessages" /\ result.status = "returned"

TextLineIndexes == {k \in MessageLineIndexes : TextOf(lines[k]) # <<>>}

MessagesAre(S) ==
    /\ Len(result.value) = Cardinality(S)
    /\ \A j \in 1..Cardinality(S) :
          LET data == lines[Ascending(S)[j]] IN
          result.value[j] = [uuid |-> data.uuid, type |-> data.type,
                             content |-> TextOf(data), timestamp |-> data.ts]

C23_MessagePerTextLine == MessagesReturned => MessagesAre(TextLineIndexes)

(***************************************************************************)
(* C23, amended.  getMessages returns one Message for every user or        *)
(* assistant line that has a uuid, a timestamp and a non-empty extracted   *)
(* text, and for no other line; a text that starts with                    *)
(* '<function_results>' or '<system-reminder>' is returned like any other. *)
(***************************************************************************)
IdentifiedTextLineIndexes ==
    {k \in TextLineIndexes : lines[k].uuid # 0 /\ lines[k].ts # 0}

C23_MessagePerIdentifiedTextLine ==
    MessagesReturned => MessagesAre(IdentifiedTextLineIndexes)

C23_Witness ==
    /\ MessagesReturned
    /\ Len(lines) = MaxLines
    /\ IdentifiedTextLineIndexes = {1, 2}
    /\ lines[1].type = "user" /\ StartsWith(TextOf(lines[1]), "FR")
    /\ lines[2].type = "user" /\ StartsWith(TextOf(lines[2]), "SR")
    /\ lines[3].ok /\ lines[3].type = "assistant" /\ lines[3].content = NoContent
    /\ Len(result.value) = 2
    /\ StartsWith(result.value[1].content, "FR")
    /\ StartsWith(result.value[2].content, "SR")

(***************************************************************************)
(* C24.  The named tool_use blocks of the assistant lines of the file, as  *)
(* pairs of line index and block index.  The statement as the              *)
(* specification words it: every one of them is attached to exactly one    *)
(* task.                                                                   *)
(***************************************************************************)
BlocksOf(k) ==
    IF lines[k].ok /\ lines[k].type = "assistant" /\ lines[k].content.kind = "arr"
    THEN {i \in 1..Len(lines[k].content.items) :
            /\ lines[k].content.items[i].type = "tool_use"
            /\ lines[k].content.items[i].name # ""}
    ELSE {}

ToolBlocks == UNION {{<<k, i>> : i \in BlocksOf(k)} : k \in 1..Len(lines)}

Throwing(block) ==
    \/ block.name \in {"Read", "Edit", "Write"} /\ block.input.file_path = NonString
    \/ block.name = "Bash" /\ block.input.command = NonString

AttachedBlocksOf(k) ==
    IF lines[k].ts = 0 THEN {}
    ELSE {i \in BlocksOf(k) :
            \A t \in BlocksOf(k) : Throwing(lines[k].content.items[t]) => i <= t}

CallsOfLine(k) ==
    [j \in 1..Cardinality(AttachedBlocksOf(k)) |->
        LET block == lines[k].content.items[Ascending(AttachedBlocksOf(k))[j]] IN
        [name |-> block.name, input |-> block.input, timestamp |-> lines[k].ts]]

RECURSIVE CallsBetween(_, _)
CallsBetween(lo, hi) ==
    IF lo > hi THEN <<>> ELSE CallsOfLine(lo) \o CallsBetween(lo + 1, hi)

TaskEnd(j) ==
    IF j < Len(TaskStartIndexes) THEN TaskStartIndexes[j + 1] - 1 ELSE Len(lines)

BlocksNamed(names) ==
    {b \in ToolBlocks : lines[b[1]].content.items[b[2]].name \in names}

C25_SessionWideSearchCounters ==
    SummaryReturned =>
        /\ result.value.stats.searchCount = Cardinality(BlocksNamed({"Glob", "Grep"}))
        /\ result.value.stats.webSearchCount =
              Cardinality(BlocksNamed({"WebSearch", "WebFetch"}))

(***************************************************************************)
(* C26.  The statement as the specification words it: the model reported   *)
(* by getSessionTokenStats is the first non-empty model of an assistant    *)
(* line in file order, and is undefined (0) only if no assistant line      *)
(* carries a model.                                                        *)
(***************************************************************************)
TokenStatsReturned ==
    call.op = "getSessionTokenStats" /\ result.status = "returned" /\ ~result.value.null

ModelIndexes ==
    {k \in 1..Len(lines) :
        lines[k].ok /\ lines[k].type = "assistant" /\ lines[k].model # 0}

C26_FirstModelOfAssistantLines ==
    TokenStatsReturned =>
        result.value.model =
            IF ModelIndexes = {} THEN 0 ELSE lines[FirstOf(ModelIndexes)].model

(***************************************************************************)
(* C26, amended.  Only the assistant lines that have a usage object are    *)
(* looked at: the model is the first non-empty model of such a line, never *)
(* replaced by a later one, and undefined if no such line carries a model. *)
(***************************************************************************)
UsageModelIndexes == {k \in ModelIndexes : lines[k].usage.present}

C26_FirstModelOfUsageLines ==
    TokenStatsReturned =>
        result.value.model =
            IF UsageModelIndexes = {} THEN 0 ELSE lines[FirstOf(UsageModelIndexes)].model

C26_Witness ==
    /\ TokenStatsReturned
    /\ Cardinality(UsageModelIndexes) = 2
    /\ lines[FirstOf(UsageModelIndexes)].model # lines[LastOf(UsageModelIndexes)].model
    /\ result.value.model = lines[FirstOf(UsageModelIndexes)].model

(***************************************************************************)
(* Numbers.  calculateTokenCost computes with JavaScript numbers, which    *)
(* are IEEE 754 doubles: every product and every sum is the exact result   *)
(* rounded to 53 significant bits, ties to even.  A non-negative integer   *)
(* of any size is a sequence of limbs in base 2^15, least significant      *)
(* first, without leading zero limb (<<>> is 0); a double is [m, e] with   *)
(* value m * 2^e, m an integer of exactly 53 bits, or Zero.  The costs     *)
(* are far from the subnormal and the overflow range, and never negative.  *)
(***************************************************************************)
LimbBase == 2^15

RECURSIVE Norm(_)
Norm(x) == IF x # <<>> /\ x[Len(x)] = 0 THEN Norm(SubSeq(x, 1, Len(x) - 1)) ELSE x

RECURSIVE FromNat(_)
FromNat(n) == IF n = 0 THEN <<>> ELSE <<n % LimbBase>> \o FromNat(n \div LimbBase)

RECURSIVE AddCarry(_, _, _)
AddCarry(a, b, c) ==
    IF a = <<>> /\ b = <<>> THEN (IF c = 0 THEN <<>> ELSE <<c>>)
    ELSE LET x == (IF a = <<>> THEN 0 ELSE Head(a)) + (IF b = <<>> THEN 0 ELSE Head(b)) + c
         IN  <<x % LimbBase>>
             \o AddCarry(IF a = <<>> THEN <<>> ELSE Tail(a),
                         IF b = <<>> THEN <<>> ELSE Tail(b), x \div LimbBase)

Add(a, b) == AddCarry(a, b, 0)

RECURSIVE SubBorrow(_, _, _)
SubBorrow(a, b, c) ==                                  \* a - b - c, for a >= b + c
    IF a = <<>> THEN <<>>
    ELSE LET x == Head(a) - (IF b = <<>> THEN 0 ELSE Head(b)) - c IN
         <<x % LimbBase>>
         \o SubBorrow(Tail(a), IF b = <<>> THEN <<>> ELSE Tail(b), IF x < 0 THEN 1 ELSE 0)

Sub(a, b) == Norm(SubBorrow(a, b, 0))

RECURSIVE MulCarry(_, _, _)
MulCarry(a, n, c) ==                                   \* a * n + c, for 0 < n < 2^15
    IF a = <<>> THEN (IF c = 0 THEN <<>> ELSE <<c>>)
    ELSE LET x == Head(a) * n + c IN
         <<x % LimbBase>> \o MulCarry(Tail(a), n, x \div LimbBase)

MulSmall(a, n) == IF n = 0 THEN <<>> ELSE MulCarry(a, n, 0)

ShiftLeft(a, k) ==
    IF a = <<>> THEN <<>>
    ELSE [i \in 1..(k \div 15) |-> 0] \o MulSmall(a, 2^(k % 15))

ShiftRight(a, k) ==
    LET q == k \div 15
        s == k % 15
        d == IF q >= Len(a) THEN <<>> ELSE SubSeq(a, q + 1, Len(a))
    IN  Norm([i \in 1..Len(d) |->
                (d[i] \div 2^s)
                + (IF i < Len(d) THEN (d[i + 1] % 2^s) * 2^(15 - s) ELSE 0)])

BitLength(a) ==
    IF a = <<>> THEN 0
    ELSE 15 * (Len(a) - 1)
         + (CHOOSE k \in 1..15 : 2^(k - 1) <= a[Len(a)] /\ a[Len(a)] < 2^k)

RECURSIVE LessFrom(_, _, _)
LessFrom(a, b, i) ==                                   \* Len(a) = Len(b)
    IF i = 0 THEN FALSE
    ELSE IF a[i] # b[i] THEN a[i] < b[i]
    ELSE LessFrom(a, b, i - 1)

Less(a, b) ==
    IF Len(a) # Len(b) THEN Len(a) < Len(b) ELSE LessFrom(a, b, Len(a))

Zero == [m |-> <<>>, e |-> 0]

RoundToDouble(x, e) ==                                 \* x * 2^e, rounded
    IF x = <<>> THEN Zero
    ELSE LET n == BitLength(x) IN
         IF n <= 53 THEN [m |-> ShiftLeft(x, 53 - n), e |-> e - (53 - n)]
         ELSE LET k    == n - 53
                  q    == ShiftRight(x, k)
                  r    == Sub(x, ShiftLeft(q, k))
                  half == ShiftLeft(<<1>>, k - 1)
                  up   == Less(half, r) \/ (r = half /\ q[1] % 2 = 1)
                  q1   == IF up THEN Add(q, <<1>>) ELSE q
              IN  IF BitLength(q1) > 53
                  THEN [m |-> ShiftRight(q1, 1), e |-> e + k + 1]
                  ELSE [m |-> q1, e |-> e + k]

Times(n, p) ==                                         \* n * p, n an integer
    IF n = 0 \/ p = Zero THEN Zero ELSE RoundToDouble(MulSmall(p.m, n), p.e)

Plus(a, b) ==                                          \* a + b
    IF a = Zero THEN b
    ELSE IF b = Zero THEN a
    ELSE LET e == IF a.e <= b.e THEN a.e ELSE b.e IN
         RoundToDouble(Add(ShiftLeft(a.m, a.e - e), ShiftLeft(b.m, b.e - e)), e)

(***************************************************************************)
(* TOKEN_PRICES, calculateTokenCost.  The prices are the doubles that the  *)
(* constant expressions 3 / 1_000_000, 15 / 1_000_000, 3.75 / 1_000_000    *)
(* and 0.3 / 1_000_000 evaluate to:                                        *)
(*   0x1.92a737110e454p-19, 0x1.f75104d551d69p-17,                         *)
(*   0x1.f75104d551d69p-19, 0x1.421f5f40d8376p-22.                         *)
(* The sum is evaluated from left to right.                                *)
(***************************************************************************)
TOKEN_PRICES ==
    [input      |-> [m |-> <<25684, 25121, 10701, 201>>, e |-> -71],
     output     |-> [m |-> <<7529, 6826, 21569, 251>>, e |-> -69],
     cacheWrite |-> [m |-> <<7529, 6826, 21569, 251>>, e |-> -71],
     cacheRead  |-> [m |-> <<886, 26651, 2007, 161>>, e |-> -74]]

calculateTokenCost_CacheReadFree(usage) ==
    LET inputCost         == Times(usage.inputTokens, TOKEN_PRICES.input)
        outputCost        == Times(usage.outputTokens, TOKEN_PRICES.output)
        cacheCreationCost == Times(usage.cacheCreationInputTokens, TOKEN_PRICES.cacheWrite)
    IN  Plus(Plus(inputCost, outputCost), cacheCreationCost)

calculateTokenCost(usage) ==
    LET inputCost         == Times(usage.inputTokens, TOKEN_PRICES.input)
        outputCost        == Times(usage.outputTokens, TOKEN_PRICES.output)
        cacheCreationCost == Times(usage.cacheCreationInputTokens, TOKEN_PRICES.cacheWrite)
        cacheReadCost     == Times(usage.cacheReadInputTokens, TOKEN_PRICES.cacheRead)
    IN  Plus(Plus(Plus(inputCost, outputCost), cacheCreationCost), cacheReadCost)

CallCalculateTokenCost ==
    /\ call.op = "calculateTokenCost" /\ result = Pending
    /\ result' = Returned(calculateTokenCost(call.usage))
    /\ UNCHANGED <<call, tree, outside, reads, segmentVars, exportVars, phaseVars, cacheVars>>

(***************************************************************************)
(* calculateTokenCost on every usage of at most MaxTokens tokens a field.  *)
(***************************************************************************)
TokenUsages ==
    [inputTokens : 0..MaxTokens, outputTokens : 0..MaxTokens,
     cacheCreationInputTokens : 0..MaxTokens, cacheReadInputTokens : 0..MaxTokens]

CostSpecInit ==
    /\ call \in [op : {"calculateTokenCost"}, project : {<<>>}, session : {<<>>},
                  usage : TokenUsages]
    /\ tree = NoTree
    /\ outside = "missing"
    /\ result = Pending
    /\ reads = {}
    /\ SegmentIdle /\ ExportIdle /\ PhaseIdle /\ CacheIdle

SpecCost == CostSpecInit /\ [][CallCalculateTokenCost]_vars

(***************************************************************************)
(* C21.  The statement as the specification words it: the cost is          *)
(* additive, cost(u + v) = cost(u) + cost(v) for all usages u and v, and   *)
(* the cost of the all-zero usage is 0.                                    *)
(***************************************************************************)
CostReturned == call.op = "calculateTokenCost" /\ result.status = "returned"

SplitsOf(w) ==
    {uv \in TokenUsages \X TokenUsages :
        /\ uv[1].inputTokens + uv[2].inputTokens = w.inputTokens
        /\ uv[1].outputTokens + uv[2].outputTokens = w.outputTokens
        /\ uv[1].cacheCreationInputTokens + uv[2].cacheCreationInputTokens
              = w.cacheCreationInputTokens
        /\ uv[1].cacheReadInputTokens + uv[2].cacheReadInputTokens
              = w.cacheReadInputTokens}

NoTokens == \A f \in DOMAIN call.usage : call.usage[f] = 0

C21_CostIsAdditive ==
    CostReturned =>
        /\ NoTokens => result.value = Zero
        /\ \A uv \in SplitsOf(call.usage) :
              result.value = Plus(calculateTokenCost(uv[1]), calculateTokenCost(uv[2]))

(***************************************************************************)
(* C21, amended.  The cost is additive up to the rounding of the doubles:  *)
(* with the rates 3, 15, 3.75 and 0.3 per million tokens, the exact cost   *)
(* of a usage is HundredMillionths(usage) / 10^8, and both cost(u + v) and *)
(* cost(u) + cost(v) are within the relative error 2^-49 of the exact cost *)
(* of u + v.  The cost of the all-zero usage is exactly 0.                 *)
(***************************************************************************)
HundredMillionths(usage) ==
    300 * usage.inputTokens + 1500 * usage.outputTokens
    + 375 * usage.cacheCreationInputTokens + 30 * usage.cacheReadInputTokens

WithinRounding(d, exact) ==                \* |d - exact / 10^8| <= 2^-49 * exact / 10^8
    IF exact = 0 THEN d = Zero
    ELSE /\ d # Zero /\ d.e < 0
         /\ LET a    == MulSmall(MulSmall(d.m, 10000), 10000)
                b    == ShiftLeft(FromNat(exact), 0 - d.e)
                diff == IF Less(a, b) THEN Sub(b, a) ELSE Sub(a, b)
            IN  ~Less(b, ShiftLeft(diff, 49))

C21_CostIsAdditiveUpToRounding ==
    CostReturned =>
        /\ NoTokens => result.value = Zero
        /\ WithinRounding(result.value, HundredMillionths(call.usage))
        /\ \A uv \in SplitsOf(call.usage) :
              WithinRounding(Plus(calculateTokenCost(uv[1]), calculateTokenCost(uv[2])),
                             HundredMillionths(call.usage))

C21_Witness ==
    /\ CostReturned
    /\ \A f \in DOMAIN call.usage : call.usage[f] > 0
    /\ \E uv \in SplitsOf(call.usage) :
          result.value # Plus(calculateTokenCost(uv[1]), calculateTokenCost(uv[2]))
    /\ \E uv \in SplitsOf(call.usage) :
          /\ uv[1] # call.usage /\ uv[2] # call.usage
          /\ result.value = Plus(calculateTokenCost(uv[1]), calculateTokenCost(uv[2]))

(***************************************************************************)
(* The decoding of project names over the life of a process: any handler   *)
(* of parser.ts or search.ts decodes a name, and the configuration file    *)
(* changes at any time in between.  The call records, as inFile, the path  *)
(* that the file holds for the name when the call is made (<<>> if none).  *)
(***************************************************************************)
ProjectPaths == {<<"/", "a", "/", "b">>, <<"/", "a", "_", "b">>, <<"c">>}

EncodedNames == {<<"-", "a", "-", "b">>, <<"c">>, <<"z">>}

ConfigFiles ==
    {NoConfigFile, ConfigFile("unparseable", <<>>)}
    \cup {ConfigFile("ok", ps) :
            ps \in {q \in SeqsUpTo(ProjectPaths, MaxProjects) :
                       \A i, j \in 1..Len(q) : i # j => q[i] # q[j]}}

InFile(config, encodedName) ==
    LET map == BuildMappings(config).map IN
    IF encodedName \in DOMAIN map THEN map[encodedName] ELSE <<>>

DecodingModules == {"parser", "search"}

CallDecodeProjectPath(module, encodedName) ==
    /\ LET got == getProjectPathMappings(projectPathCache[module], claudeJson) IN
          /\ projectPathCache' = [projectPathCache EXCEPT ![module] = got.cache]
          /\ configCalls' = [configCalls EXCEPT ![module] = @ \o got.calls]
          /\ result' = Returned(decodeProjectPath(got.cache.map, encodedName))
    /\ call' = [op |-> "decodeProjectPath", project |-> encodedName, session |-> <<>>,
                module |-> module, inFile |-> InFile(claudeJson, encodedName)]
    /\ UNCHANGED <<claudeJson, tree, outside, reads, segmentVars, exportVars, phaseVars>>

ChangeClaudeJson ==
    /\ claudeJson' \in ConfigFiles \ {claudeJson}
    /\ UNCHANGED <<projectPathCache, configCalls, parserVars, segmentVars, exportVars,
                   phaseVars>>

DecodeSpecInit ==
    /\ claudeJson \in ConfigFiles
    /\ projectPathCache = [m \in Modules |-> NotBuilt]
    /\ configCalls = [m \in Modules |-> <<>>]
    /\ ParserIdle /\ SegmentIdle /\ ExportIdle /\ PhaseIdle

DecodeSpecNext ==
    \/ \E module \in DecodingModules, encodedName \in EncodedNames :
          CallDecodeProjectPath(module, encodedName)
    \/ ChangeClaudeJson

SpecDecode == DecodeSpecInit /\ [][DecodeSpecNext]_vars

(***************************************************************************)
(* C27.  In each module the mapping is built at most once, by the first    *)
(* decode call; once it is built, also as an empty mapping from a missing  *)
(* or unparseable file, no step changes it, no step touches the file for   *)
(* that module again, and every decode call of the module answers from it, *)
(* whatever the file holds by then.                                        *)
(***************************************************************************)
LookUp(map, encodedName) ==
    IF encodedName \notin DOMAIN map THEN encodedName
    ELSE IF map[encodedName][1] = "/"
         THEN SubSeq(map[encodedName], 2, Len(map[encodedName]))
         ELSE map[encodedName]

C27_MappingBuiltOnce ==
    [][\A module \in Modules :
          /\ Cardinality({k \in 1..Len(configCalls'[module]) :
                             configCalls'[module][k] = "existsSync"}) <= 1
          /\ Len(configCalls'[module]) <= 2
          /\ projectPathCache[module].built =>
                /\ projectPathCache'[module] = projectPathCache[module]
                /\ configCalls'[module] = configCalls[module]
                /\ \A encodedName \in EncodedNames :
                      CallDecodeProjectPath(module, encodedName) =>
                          result'.value = LookUp(projectPathCache[module].map, encodedName)
          /\ (~projectPathCache[module].built /\ projectPathCache'[module].built) =>
                /\ call'.module = module
                /\ configCalls'[module] # <<>>
                /\ result'.value = LookUp(projectPathCache'[module].map, call'.project)]_vars

C27_Witness ==
    /\ call.op = "decodeProjectPath"
    /\ projectPathCache[call.module] = Built(<<>>)
    /\ configCalls[call.module] = <<"existsSync">>
    /\ call.inFile # <<>>
    /\ result.value = call.project
    /\ \E other \in Modules :
          /\ projectPathCache[other].built
          /\ call.project \in DOMAIN projectPathCache[other].map

(***************************************************************************)
(* insights.ts, trends.ts: the per-session extraction.  Both modules have  *)
(* their own copies of extractUserText (the one of parser.ts, above) and   *)
(* of isUserMessage, which are the same code in both.                      *)
(***************************************************************************)
isUserMessage(text) ==
    /\ text # <<>>
    /\ ~StartsWith(text, "FR")
    /\ ~StartsWith(text, "SR")
    /\ ~StartsWith(text, "TR")

\* extractToolCalls of insights.ts: the named tool_use blocks as {name, input}
RECURSIVE InsightToolCalls(_)
InsightToolCalls(items) ==
    IF items = <<>> THEN <<>>
    ELSE LET rest == InsightToolCalls(Tail(items)) IN
         IF Head(items).type = "tool_use" /\ Head(items).name # ""
         THEN <<[name |-> Head(items).name, input |-> Head(items).input]>> \o rest
         ELSE rest

insightsExtractToolCalls(content) ==
    IF content.kind = "arr" THEN InsightToolCalls(content.items) ELSE <<>>

(***************************************************************************)
(* The test/build pattern of insights.ts,                                  *)
(*   /\b(test|build|lint|vitest|jest|pytest)\b/                            *)
(* searched anywhere in the command.  A token of a command is white space  *)
(* ("SP"), a punctuation character ("-", ":") or a piece of a word; two    *)
(* adjacent pieces form one word, so that \b holds next to a token only at *)
(* an end of the command and next to white space or punctuation.           *)
(***************************************************************************)
TestOrBuildWords == {"test", "build", "lint", "vitest", "jest", "pytest"}

NonWordTokens == {"SP", "-", ":"}

MatchesTestOrBuild(cmd) ==
    \E i \in 1..Len(cmd) :
        /\ cmd[i] \in TestOrBuildWords
        /\ (i = 1 \/ cmd[i - 1] \in NonWordTokens)
        /\ (i = Len(cmd) \/ cmd[i + 1] \in NonWordTokens)

IsTestOrBuild(tool) ==
    tool.name = "Bash" /\ tool.input.command # NonString
    /\ MatchesTestOrBuild(tool.input.command)

(***************************************************************************)
(* analyzeSessionFile (insights.ts): one pass over the lines.              *)
(* editTargetFiles is a function from the file_path of the Edit calls      *)
(* (<<>> for a call without one) to their number.                          *)
(***************************************************************************)
AnalysisInit ==
    [timestamp |-> 0, toolCalls |-> <<>>, userMessages |-> <<>>,
     assistantTurnCount |-> 0, taskBoundaries |-> 0, assistantTurnsPerTask |-> <<>>,
     totalInputTokens |-> 0, totalOutputTokens |-> 0, editWriteCount |-> 0,
     editTargetFiles |-> <<>>, hasEditOrWrite |-> FALSE, hasTestOrBuild |-> FALSE,
     hasPlanMode |-> FALSE, hasSubAgent |-> FALSE,
     currentTaskAssistantTurns |-> 0, inTask |-> FALSE]

CountUp(map, key) ==
    [k \in DOMAIN map \cup {key} |->
        IF k = key THEN (IF key \in DOMAIN map THEN map[key] + 1 ELSE 1) ELSE map[k]]

AnalyseTool(a, tool) ==
    LET a1 == [a EXCEPT !.toolCalls = Append(@, tool)]
        a2 == IF tool.name = "Edit"
              THEN [a1 EXCEPT !.editWriteCount = @ + 1, !.hasEditOrWrite = TRUE,
                              !.editTargetFiles = CountUp(@, tool.input.file_path)]
              ELSE a1
        a3 == IF tool.name = "Write"
              THEN [a2 EXCEPT !.editWriteCount = @ + 1, !.hasEditOrWrite = TRUE]
              ELSE a2
        a4 == IF tool.name = "EnterPlanMode" THEN [a3 EXCEPT !.hasPlanMode = TRUE] ELSE a3
        a5 == IF tool.name = "Task" THEN [a4 EXCEPT !.hasSubAgent = TRUE] ELSE a4
    IN  IF IsTestOrBuild(tool) THEN [a5 EXCEPT !.hasTestOrBuild = TRUE] ELSE a5

RECURSIVE AnalyseTools(_, _)
AnalyseTools(a, tools) ==
    IF tools = <<>> THEN a ELSE AnalyseTools(AnalyseTool(a, Head(tools)), Tail(tools))

AnalysisLine(a, data) ==
    IF ~data.ok THEN a
    ELSE LET a1 == IF data.ts # 0 /\ a.timestamp = 0
                   THEN [a EXCEPT !.timestamp = data.ts] ELSE a
             text == extractUserText(data.content)
             a2 == IF data.type = "user" /\ Truthy(data.content) /\ isUserMessage(text)
                   THEN [a1 EXCEPT
                           !.userMessages = Append(@, text),
                           !.assistantTurnsPerTask =
                               IF a1.inTask THEN Append(@, a1.currentTaskAssistantTurns)
                               ELSE @,
                           !.taskBoundaries = @ + 1,
                           !.currentTaskAssistantTurns = 0,
                           !.inTask = TRUE]
                   ELSE a1
         IN  IF data.type = "assistant" /\ Truthy(data.content)
             THEN LET a3 == [a2 EXCEPT !.assistantTurnCount = @ + 1,
                                       !.currentTaskAssistantTurns = @ + 1]
                      a4 == IF data.usage.present
                            THEN [a3 EXCEPT
                                    !.totalInputTokens = @ + OrZero(data.usage.input_tokens),
                                    !.totalOutputTokens = @ + OrZero(data.usage.output_tokens)]
                            ELSE a3
                  IN  AnalyseTools(a4, insightsExtractToolCalls(data.content))
             ELSE a2

RECURSIVE AnalysisFold(_, _)
AnalysisFold(a, ls) ==
    IF ls = <<>> THEN a ELSE AnalysisFold(AnalysisLine(a, Head(ls)), Tail(ls))

\* null (readFileSync throws) is NullValue; otherwise the analysis
analyzeSessionFile(file, ls) ==
    IF file # "ok" THEN NullValue
    ELSE LET a == AnalysisFold(AnalysisInit, ls) IN
         [a EXCEPT !.assistantTurnsPerTask =
                       IF a.inTask THEN Append(@, a.currentTaskAssistantTurns) ELSE @]
         @@ [null |-> FALSE]

(***************************************************************************)
(* extractSession (trends.ts): one pass over the lines.  toolCounts is a   *)
(* function from tool names to numbers of calls; the decoded project name  *)
(* is added by the caller.                                                 *)
(***************************************************************************)
ExtractInit ==
    [timestamp |-> 0, toolCounts |-> <<>>, taskCount |-> 0, modifiedFiles |-> {},
     totalInputTokens |-> 0, totalOutputTokens |-> 0, editWriteCount |-> 0]

ExtractItem(x, item) ==
    IF item.type # "tool_use" \/ item.name = "" THEN x      \* 'name' in item
    ELSE LET x1 == [x EXCEPT !.toolCounts = CountUp(@, item.name)] IN
         IF item.name \in {"Edit", "Write"}
         THEN [x1 EXCEPT !.editWriteCount = @ + 1,
                         !.modifiedFiles =
                             IF item.input.file_path # <<>>
                             THEN @ \cup {item.input.file_path} ELSE @]
         ELSE x1

RECURSIVE ExtractItems(_, _)
ExtractItems(x, items) ==
    IF items = <<>> THEN x ELSE ExtractItems(ExtractItem(x, Head(items)), Tail(items))

ExtractLine(x, data) ==
    IF ~data.ok THEN x
    ELSE LET x1 == IF data.ts # 0 /\ x.timestamp = 0
                   THEN [x EXCEPT !.timestamp = data.ts] ELSE x
             x2 == IF data.type = "user" /\ Truthy(data.content)
                      /\ isUserMessage(extractUserText(data.content))
                   THEN [x1 EXCEPT !.taskCount = @ + 1] ELSE x1
         IN  IF data.type = "assistant" /\ Truthy(data.content)
             THEN LET x3 == IF data.usage.present
                            THEN [x2 EXCEPT
                                    !.totalInputTokens = @ + OrZero(data.usage.input_tokens),
                                    !.totalOutputTokens = @ + OrZero(data.usage.output_tokens)]
                            ELSE x2
                  IN  IF data.content.kind = "arr"
                      THEN ExtractItems(x3, data.content.items) ELSE x3
             ELSE x2

RECURSIVE ExtractFold(_, _)
ExtractFold(x, ls) ==
    IF ls = <<>> THEN x ELSE ExtractFold(ExtractLine(x, Head(ls)), Tail(ls))

extractSession(file, ls, projectName) ==
    IF file # "ok" THEN NullValue
    ELSE LET x == ExtractFold(ExtractInit, ls) IN
         IF x.timestamp = 0 THEN NullValue
         ELSE [null |-> FALSE, timestamp |-> x.timestamp, projectName |-> projectName,
               toolCounts |-> x.toolCounts, taskCount |-> x.taskCount,
               filesModifiedCount |-> Cardinality(x.modifiedFiles),
               totalInputTokens |-> x.totalInputTokens,
               totalOutputTokens |-> x.totalOutputTokens,
               editWriteCount |-> x.editWriteCount]

(***************************************************************************)
(* C28.  The statement as the specification words it: detectPhases' rule   *)
(* for verification and the test/build rule of the insights extraction     *)
(* accept the same Bash commands, so a list of tool calls has the phase    *)
(* "verification" exactly when the insights extraction sets hasTestOrBuild *)
(* for the same calls.  The code violates it: 'cargo build' matches only   *)
(* the insights pattern, 'pytests' only the one of detectPhases.           *)
(***************************************************************************)
C28_SameVerificationRule ==
    phases # <<>> =>
        /\ ("verification" \in Range(phases))
              <=> AnalyseTools(AnalysisInit,
                               [k \in 1..Len(toolCalls) |->
                                   [name |-> toolCalls[k].name,
                                    input |-> toolCalls[k].input]]).hasTestOrBuild
        /\ \A k \in 1..Len(toolCalls) :
              toolCalls[k].name = "Bash" =>
                  (IsVerification(toolCalls[k]) <=> IsTestOrBuild(toolCalls[k]))

(***************************************************************************)
(* C29.  The statement as the specification words it: on every session     *)
(* file the task counts of extractSession (trends.ts) and of                *)
(* analyzeSessionFile (insights.ts) equal totalTasks of getSessionSummary. *)
(* The code violates it: the two extractions count a user line without     *)
(* timestamp, which getSessionSummary skips, and skip a user line whose    *)
(* text starts with '<tool_result', which getSessionSummary counts.        *)
(***************************************************************************)
C29_SameTaskCount ==
    SummaryReturned =>
        /\ analyzeSessionFile(fileState, lines).taskBoundaries = result.value.totalTasks
        /\ LET extract == extractSession(fileState, lines, call.project) IN
              ~extract.null => extract.taskCount = result.value.totalTasks

(***************************************************************************)
(* getTrends (trends.ts), in full.  A time is a number of ticks since the  *)
(* epoch, UnitsPerDay ticks a day; offset is the distance of the local     *)
(* time zone from UTC in ticks.  A date string 'YYYY-MM-DD' is the number  *)
(* of its UTC day.  An hour of the day is a multiple of 24 / UnitsPerDay.  *)
(* Of TrendData the fields period, sessionTimeSeries, projectBreakdown,    *)
(* activityHeatmap, totalSessions and totalTokens are modelled; the        *)
(* complexity, efficiency and tool series are computed from the same list  *)
(* of sessions and do not change it.                                       *)
(***************************************************************************)
EpochWeekday == 4                                   \* 1970-01-01 is a Thursday

toDateStr(d) == d \div UnitsPerDay

getDay(d, offset) == (((d + offset) \div UnitsPerDay) + EpochWeekday) % 7

getHours(d, offset) == ((d + offset) % UnitsPerDay) * (24 \div UnitsPerDay)

getWeekStart(d, offset) ==
    LET day  == getDay(d, offset)
        diff == (IF day = 0 THEN 0 - 6 ELSE 1) - day      \* days from d to its Monday
    IN  toDateStr(d + diff * UnitsPerDay)

RECURSIVE ExtractsOfFiles(_, _, _, _)
ExtractsOfFiles(files, decoded, periodStart, sessions) ==
    IF files = <<>> THEN sessions
    ELSE LET extract == extractSession(Head(files).state, Head(files).lines, decoded) IN
         ExtractsOfFiles(Tail(files), decoded, periodStart,
                         IF extract.null THEN sessions
                         ELSE IF extract.timestamp < periodStart THEN sessions
                         ELSE Append(sessions, extract))

RECURSIVE TrendScan(_, _, _, _, _)
TrendScan(t, projects, mappings, periodStart, sessions) ==
    IF projects = <<>> THEN sessions
    ELSE LET projectName == Head(projects) IN
         IF DirAt(t, projectName) # "dir"                 \* existsSync, catch: continue
         THEN TrendScan(t, Tail(projects), mappings, periodStart, sessions)
         ELSE TrendScan(t, Tail(projects), mappings, periodStart,
                        ExtractsOfFiles(SelectSeq(FilesAt(t, projectName), IsSessionFile),
                                        decodeProjectPath(mappings, projectName),
                                        periodStart, sessions))

RECURSIVE InsertByTimestamp(_, _)
InsertByTimestamp(sorted, x) ==
    IF sorted = <<>> THEN <<x>>
    ELSE IF Head(sorted).timestamp <= x.timestamp
         THEN <<Head(sorted)>> \o InsertByTimestamp(Tail(sorted), x)
         ELSE <<x>> \o sorted

RECURSIVE SortByTimestamp(_, _)
SortByTimestamp(sorted, rest) ==
    IF rest = <<>> THEN sorted
    ELSE SortByTimestamp(InsertByTimestamp(sorted, Head(rest)), Tail(rest))

\* weeklySessionMap.set(weekStart, (weeklySessionMap.get(weekStart) || 0) + 1)
AddWeekly_Overwrite(weekly, date) ==
    IF \E k \in 1..Len(weekly) : weekly[k].date = date
    THEN weekly
    ELSE Append(weekly, [date |-> date, value |-> 1])

AddWeekly(weekly, date) ==
    IF \E k \in 1..Len(weekly) : weekly[k].date = date
    THEN [k \in 1..Len(weekly) |->
            IF weekly[k].date = date THEN [weekly[k] EXCEPT !.value = @ + 1]
            ELSE weekly[k]]
    ELSE Append(weekly, [date |-> date, value |-> 1])

RECURSIVE WeeklySessions(_, _, _)
WeeklySessions(weekly, sessions, offset) ==
    IF sessions = <<>> THEN weekly
    ELSE WeeklySessions(AddWeekly(weekly, getWeekStart(Head(sessions).timestamp, offset)),
                        Tail(sessions), offset)

AddProject(projectMap, s) ==
    LET tokens == s.totalInputTokens + s.totalOutputTokens IN
    IF \E k \in 1..Len(projectMap) : projectMap[k].projectName = s.projectName
    THEN [k \in 1..Len(projectMap) |->
            IF projectMap[k].projectName = s.projectName
            THEN [projectMap[k] EXCEPT !.sessionCount = @ + 1, !.totalTokens = @ + tokens]
            ELSE projectMap[k]]
    ELSE Append(projectMap, [projectName |-> s.projectName, sessionCount |-> 1,
                             totalTokens |-> tokens])

RECURSIVE ProjectMap(_, _)
ProjectMap(projectMap, sessions) ==
    IF sessions = <<>> THEN projectMap
    ELSE ProjectMap(AddProject(projectMap, Head(sessions)), Tail(sessions))

RECURSIVE InsertByTokens(_, _)
InsertByTokens(sorted, x) ==
    IF sorted = <<>> THEN <<x>>
    ELSE IF Head(sorted).totalTokens >= x.totalTokens
         THEN <<Head(sorted)>> \o InsertByTokens(Tail(sorted), x)
         ELSE <<x>> \o sorted

RECURSIVE SortByTokens(_, _)
SortByTokens(sorted, rest) ==
    IF rest = <<>> THEN sorted
    ELSE SortByTokens(InsertByTokens(sorted, Head(rest)), Tail(rest))

HeatmapCount(sessions, dayOfWeek, hour, offset) ==
    Cardinality({k \in 1..Len(sessions) :
                    /\ getDay(sessions[k].timestamp, offset) = dayOfWeek
                    /\ getHours(sessions[k].timestamp, offset) = hour})

\* The loops over dayOfWeek 0..6 and hour 0..23 emit the cells in the order of
\* dayOfWeek * 24 + hour.
activityHeatmap(sessions, offset) ==
    LET slots == Ascending({slot \in 0..(7 * 24 - 1) :
                              HeatmapCount(sessions, slot \div 24, slot % 24, offset) > 0})
    IN  [j \in 1..Len(slots) |->
            [dayOfWeek |-> slots[j] \div 24, hour |-> slots[j] % 24,
             count |-> HeatmapCount(sessions, slots[j] \div 24, slots[j] % 24, offset)]]

RECURSIVE SumTokens(_)
SumTokens(sessions) ==
    IF sessions = <<>> THEN 0
    ELSE Head(sessions).totalInputTokens + Head(sessions).totalOutputTokens
         + SumTokens(Tail(sessions))

getTrendsResult(t, mappings, days, now, offset) ==
    LET projects == getProjects(t) IN
    IF projects.status = "threw" THEN Threw
    ELSE LET periodStart == periodStartOf(now, days, offset)
             period      == [from |-> toDateStr(periodStart), to |-> toDateStr(now),
                             days |-> days]
             found       == TrendScan(t, projects.value, mappings, periodStart, <<>>)
             sessions    == SortByTimestamp(<<>>, found)
         IN  IF Len(found) = 0
             THEN Returned([period |-> period, sessionTimeSeries |-> <<>>,
                            projectBreakdown |-> <<>>, activityHeatmap |-> <<>>,
                            totalSessions |-> 0, totalTokens |-> 0])
             ELSE Returned([period |-> period,
                            sessionTimeSeries |->
                                SortByDate(<<>>, WeeklySessions(<<>>, sessions, offset)),
                            projectBreakdown |->
                                SortByTokens(<<>>, ProjectMap(<<>>, sessions)),
                            activityHeatmap |-> activityHeatmap(sessions, offset),
                            totalSessions |-> Len(sessions),
                            totalTokens |-> SumTokens(sessions)])

CallGetTrendsResult ==
    /\ call.op = "getTrendsResult" /\ result = Pending
    /\ LET got == getProjectPathMappings(projectPathCache["trends"], claudeJson) IN
       result' = getTrendsResult(tree, got.cache.map, call.days, call.now, call.offset)
    /\ Decoding("trends", getTrends(tree).status = "returned" /\ getTrends(tree).value # <<>>)
    /\ UNCHANGED <<call, tree, outside, reads, segmentVars, exportVars, phaseVars>>

(***************************************************************************)
(* getTrends on a project of at most MaxSessions session files of one      *)
(* line each, stamped at a tick of three different weeks or not at all,    *)
(* and on a second project with one session.                               *)
(***************************************************************************)
TrendLines ==
    {UsageLine(ts, 1, 1) : ts \in {0, 1, 2, 8, 9, 14, 29}}

TrendTrees ==
    { Root(<<Project(CleanProject,
                     [k \in 1..Len(ls) |-> SessionFile(AnalyticsNames[k], "ok",
                                                       <<ls[k]>>)])>>
           \o other) :
        ls \in SeqsUpTo(TrendLines, MaxSessions),
        other \in {<<>>, <<Project(<<"p2">>,
                                   <<SessionFile(<<"s1">>, "ok", <<UsageLine(9, 2, 2)>>),
                                     SessionFile(<<"s2">>, "unreadable", <<>>)>>)>>} }

TrendSpecInit ==
    /\ call \in [op : {"getTrendsResult"}, project : {<<>>}, session : {<<>>},
                  days : {0, 7, 90}, now : {30}, offset : {0, 1}]
    /\ tree \in TrendTrees
    /\ outside = "missing"
    /\ result = Pending
    /\ reads = {}
    /\ SegmentIdle /\ ExportIdle /\ PhaseIdle /\ CacheIdle

SpecTrends == TrendSpecInit /\ [][CallGetTrendsResult]_vars

(***************************************************************************)
(* C30.  In every non-empty result of getTrends each counted session is in *)
(* exactly one weekly bucket and one heatmap cell: the values of           *)
(* sessionTimeSeries and the counts of activityHeatmap both add up to      *)
(* totalSessions, and every heatmap cell has a count above 0, a dayOfWeek  *)
(* in 0..6 and an hour in 0..23, no (dayOfWeek, hour) pair twice.          *)
(***************************************************************************)
TrendsReturned == call.op = "getTrendsResult" /\ result.status = "returned"

C30_OneBucketOneCell ==
    (TrendsReturned /\ result.value.totalSessions > 0) =>
        LET series  == result.value.sessionTimeSeries
            heatmap == result.value.activityHeatmap
        IN  /\ SumTo([k \in 1..Len(series) |-> series[k].value], Len(series))
                  = result.value.totalSessions
            /\ SumTo([k \in 1..Len(heatmap) |-> heatmap[k].count], Len(heatmap))
                  = result.value.totalSessions
            /\ \A k \in 1..Len(heatmap) :
                  /\ heatmap[k].count > 0
                  /\ heatmap[k].dayOfWeek \in 0..6
                  /\ heatmap[k].hour \in 0..23
            /\ \A j, k \in 1..Len(heatmap) :
                  j # k => <<heatmap[j].dayOfWeek, heatmap[j].hour>>
                           # <<heatmap[k].dayOfWeek, heatmap[k].hour>>
            /\ \A j, k \in 1..Len(series) : j # k => series[j].date # series[k].date

C30_Witness ==
    /\ TrendsReturned
    /\ result.value.totalSessions = 4
    /\ Len(result.value.sessionTimeSeries) = 2
    /\ Len(result.value.activityHeatmap) = 3
    /\ \E k \in 1..3 : result.value.activityHeatmap[k].count = 2
    /\ \E k \in 1..2 : result.value.sessionTimeSeries[k].value = 3

(***************************************************************************)
(* The scoring functions of insights.ts.  A detail is [category, score];   *)
(* the categories, Japanese strings in the source, are named here by the   *)
(* variable that holds their score, and the finding is left out: every     *)
(* category has an entry in recommendationMap, so the finding is never     *)
(* used.  Math.round(x) is the integer nearest to x, a half rounded up;    *)
(* the quotients are compared and rounded as exact fractions, which the    *)
(* doubles of the source agree with for counts as small as the modelled    *)
(* ones.  In a user message the token "a.ts" is a file name, which         *)
(* filePathPattern matches, and "NO" one of the phrases of                 *)
(* correctionPatterns; a token is as long as the text it stands for.       *)
(***************************************************************************)
RoundDiv(a, b) == (2 * a + b) \div (2 * b)              \* Math.round(a / b), b > 0

Max0(n) == IF n < 0 THEN 0 ELSE n                       \* Math.max(0, n)

Detail(category, score) == [category |-> category, score |-> score]

RECURSIVE SumScores(_)
SumScores(details) ==
    IF details = <<>> THEN 0 ELSE Head(details).score + SumScores(Tail(details))

Scored(details) ==
    [score |-> RoundDiv(SumScores(details), Len(details)), details |-> details]

RECURSIVE FlatMap(_, _)
FlatMap(sessions, field) ==
    IF sessions = <<>> THEN <<>>
    ELSE Head(sessions)[field] \o FlatMap(Tail(sessions), field)

Count(s, P(_)) == Cardinality({k \in 1..Len(s) : P(s[k])})

BadCommands == {"cat", "head", "tail", "grep", "rg", "find", "sed", "awk"}

\* /^(cat |head |tail |grep |rg |find |sed |awk |echo\s*>)/
MatchesBadPattern(cmd) ==
    \/ Len(cmd) >= 2 /\ cmd[1] \in BadCommands /\ cmd[2] = "SP"
    \/ /\ Len(cmd) >= 2 /\ cmd[1] = "echo"
       /\ \E k \in 2..Len(cmd) : cmd[k] = ">" /\ \A j \in 2..(k - 1) : cmd[j] = "SP"

IsBashCommand(tool) == tool.name = "Bash" /\ tool.input.command # NonString

scoreBestPractice(sessions, claudeMdExists) ==
    LET allTools == FlatMap(sessions, "toolCalls")
        inappropriateCount ==
            Count(allTools, LAMBDA tool : IsBashCommand(tool)
                                          /\ MatchesBadPattern(tool.input.command))
        appropriateCount ==
            Count(allTools, LAMBDA tool : IsBashCommand(tool)
                                          /\ ~MatchesBadPattern(tool.input.command))
        totalBashCalls == appropriateCount + inappropriateCount
        toolSelectionScore ==
            IF totalBashCalls = 0 THEN 100
            ELSE RoundDiv(appropriateCount * 100, totalBashCalls)
        planModeCount == Count(sessions, LAMBDA s : s.hasPlanMode)
        planModeScore == IF planModeCount = 0 THEN 0
                         ELSE IF planModeCount = 1 THEN 50 ELSE 100
        sessionsWithChanges == SelectSeq(sessions, LAMBDA s : s.hasEditOrWrite)
        sessionsWithVerification ==
            SelectSeq(sessionsWithChanges, LAMBDA s : s.hasTestOrBuild)
        verificationScore ==
            IF Len(sessionsWithChanges) = 0 THEN 100
            ELSE RoundDiv(Len(sessionsWithVerification) * 100, Len(sessionsWithChanges))
        sessionsWithSubAgent == Count(sessions, LAMBDA s : s.hasSubAgent)
        subAgentScore ==
            IF Len(sessions) = 0 THEN 0
            ELSE RoundDiv(sessionsWithSubAgent * 100, Len(sessions))
        claudeMdScore == IF claudeMdExists THEN 100 ELSE 0
    IN  Scored(<<Detail("toolSelection", toolSelectionScore),
                 Detail("planMode", planModeScore),
                 Detail("verification", verificationScore),
                 Detail("subAgent", subAgentScore),
                 Detail("claudeMd", claudeMdScore)>>)

TokenLength(token) ==
    CASE token = "FR" -> 18 [] token = "SR" -> 17 [] token = "TR" -> 12
      [] token = "a.ts" -> 4 [] token = "NO" -> 2 [] OTHER -> 1

RECURSIVE TextLength(_)
TextLength(text) ==
    IF text = <<>> THEN 0 ELSE TokenLength(Head(text)) + TextLength(Tail(text))

RECURSIVE SumLengths(_)
SumLengths(messages) ==
    IF messages = <<>> THEN 0
    ELSE TextLength(Head(messages)) + SumLengths(Tail(messages))

RECURSIVE SumList(_)
SumList(numbers) ==
    IF numbers = <<>> THEN 0 ELSE Head(numbers) + SumList(Tail(numbers))

scoreInstructionQuality(sessions) ==
    LET allUserMessages == FlatMap(sessions, "userMessages")
        n == Len(allUserMessages)
        total == SumLengths(allUserMessages)            \* avgLength is total / n
        specificityScore ==
            IF n = 0 THEN 30
            ELSE IF total >= 500 * n THEN 100
            ELSE IF total >= 150 * n THEN 90
            ELSE IF total >= 50 * n THEN 60
            ELSE 30
        messagesWithFilePath == Count(allUserMessages, LAMBDA m : "a.ts" \in Range(m))
        contextScore == IF n = 0 THEN 0 ELSE RoundDiv(messagesWithFilePath * 100, n)
        allTurns == FlatMap(sessions, "assistantTurnsPerTask")
        turns == SumList(allTurns)                      \* avgTurns is turns / Len(allTurns)
        accuracyScore ==
            IF Len(allTurns) = 0 THEN 100
            ELSE IF turns <= 3 * Len(allTurns) THEN 100
            ELSE IF turns <= 5 * Len(allTurns) THEN 80
            ELSE IF turns <= 10 * Len(allTurns) THEN 50
            ELSE 30
        correctionMessages == Count(allUserMessages, LAMBDA m : "NO" \in Range(m))
        correctionScore ==
            IF n = 0 THEN 100
            ELSE Max0(RoundDiv(100 * n - 200 * correctionMessages, n))
    IN  Scored(<<Detail("specificity", specificityScore),
                 Detail("context", contextScore),
                 Detail("accuracy", accuracyScore),
                 Detail("correction", correctionScore)>>)

RECURSIVE SumEditWrite(_)
SumEditWrite(sessions) ==
    IF sessions = <<>> THEN 0
    ELSE Head(sessions).editWriteCount + SumEditWrite(Tail(sessions))

IsInvestigationTool(tool) ==
    tool.name \in {"Read", "Glob", "Grep", "WebSearch", "WebFetch"}

IsPlanningTool(tool) ==
    ~IsInvestigationTool(tool)
    /\ \/ tool.name = "EnterPlanMode"
       \/ tool.name = "TodoWrite"
       \/ (tool.name = "Task" /\ tool.input.subagent_type = "Plan")

IsImplementationTool(tool) ==
    ~IsInvestigationTool(tool) /\ ~IsPlanningTool(tool) /\ tool.name \in {"Edit", "Write"}

IsVerificationTool(tool) ==
    /\ ~IsInvestigationTool(tool) /\ ~IsPlanningTool(tool) /\ ~IsImplementationTool(tool)
    /\ IsTestOrBuild(tool)

\* allEditFiles: the edit counts of each file added up over the sessions
EditsOfFile(sessions, file) ==
    SumList([k \in 1..Len(sessions) |->
                IF file \in DOMAIN sessions[k].editTargetFiles
                THEN sessions[k].editTargetFiles[file] ELSE 0])

scoreWorkDensity(sessions) ==
    LET totalEditWrite == SumEditWrite(sessions)
        totalTokens    == SumTokens(sessions)
        \* ratio is totalEditWrite / (totalTokens / 100000), 0 without tokens
        tokenEfficiencyScore ==
            IF totalTokens = 0 THEN 20
            ELSE IF totalEditWrite * 100000 >= 10 * totalTokens THEN 100
            ELSE IF totalEditWrite * 100000 >= 5 * totalTokens THEN 80
            ELSE IF totalEditWrite * 100000 >= 2 * totalTokens THEN 60
            ELSE IF totalEditWrite * 100000 >= totalTokens THEN 40
            ELSE 20
        allTools == FlatMap(sessions, "toolCalls")
        totalToolCalls == Len(allTools)
        implementationCount == Count(allTools, IsImplementationTool)
        verificationCount == Count(allTools, IsVerificationTool)
        implVerify == implementationCount + verificationCount
        phaseBalanceScore ==
            IF totalToolCalls = 0 THEN 40
            ELSE IF 10 * implVerify >= 4 * totalToolCalls THEN 100
            ELSE IF 10 * implVerify >= 3 * totalToolCalls THEN 80
            ELSE IF 10 * implVerify >= 2 * totalToolCalls THEN 60
            ELSE 40
        allEditFiles ==
            UNION {DOMAIN sessions[k].editTargetFiles : k \in 1..Len(sessions)}
        totalEditedFiles == Cardinality(allEditFiles)
        reworkFiles ==
            Cardinality({file \in allEditFiles : EditsOfFile(sessions, file) >= 3})
        reworkScore ==
            IF totalEditedFiles = 0 THEN 100
            ELSE Max0(RoundDiv(100 * totalEditedFiles - 200 * reworkFiles,
                               totalEditedFiles))
    IN  Scored(<<Detail("tokenEfficiency", tokenEfficiencyScore),
                 Detail("phaseBalance", phaseBalanceScore),
                 Detail("rework", reworkScore)>>)

(***************************************************************************)
(* generateRecommendations (insights.ts).  Array.prototype.sort is stable. *)
(* The text that recommendationMap has for a category is                   *)
(* Recommendation(category).                                               *)
(***************************************************************************)
Recommendation(category) == <<"recommendation", category>>

RECURSIVE InsertByScore(_, _)
InsertByScore(sorted, x) ==
    IF sorted = <<>> THEN <<x>>
    ELSE IF Head(sorted).score <= x.score
         THEN <<Head(sorted)>> \o InsertByScore(Tail(sorted), x)
         ELSE <<x>> \o sorted

RECURSIVE SortByScore(_, _)
SortByScore(sorted, rest) ==
    IF rest = <<>> THEN sorted
    ELSE SortByScore(InsertByScore(sorted, Head(rest)), Tail(rest))

Slice(s, n) == SubSeq(s, 1, IF Len(s) < n THEN Len(s) ELSE n)      \* s.slice(0, n)

generateRecommendations_Unsorted(bestPractice, instructionQuality, workDensity) ==
    LET allDetails == bestPractice.details \o instructionQuality.details
                      \o workDensity.details
        lowScoreDetails == SelectSeq(allDetails, LAMBDA d : d.score < 60)
        top == Slice(lowScoreDetails, 5)
    IN  [k \in 1..Len(top) |-> Recommendation(top[k].category)]

generateRecommendations(bestPractice, instructionQuality, workDensity) ==
    LET allDetails == bestPractice.details \o instructionQuality.details
                      \o workDensity.details
        lowScoreDetails ==
            SortByScore(<<>>, SelectSeq(allDetails, LAMBDA d : d.score < 60))
        top == Slice(lowScoreDetails, 5)
    IN  [k \in 1..Len(top) |-> Recommendation(top[k].category)]

(***************************************************************************)
(* getInsights (insights.ts), in full but for overallScore, a weighted sum *)
(* of the three axis scores.  days is <<>> when the argument is undefined  *)
(* and <<n>> for n days; claudeMdExists is what                            *)
(* fs.existsSync(process.cwd() + '/CLAUDE.md') answers.                    *)
(***************************************************************************)
NoSessionData == <<"no session data">>
Affirmation   == <<"affirmation">>

RECURSIVE AnalysesOfFiles(_, _, _)
AnalysesOfFiles(files, periodStart, analyses) ==
    IF files = <<>> THEN analyses
    ELSE LET analysis == analyzeSessionFile(Head(files).state, Head(files).lines) IN
         AnalysesOfFiles(Tail(files), periodStart,
                         IF analysis.null \/ analysis.timestamp = 0 THEN analyses
                         ELSE IF periodStart # <<>> /\ analysis.timestamp < periodStart[1]
                              THEN analyses
                         ELSE Append(analyses, analysis))

RECURSIVE InsightScan(_, _, _, _)
InsightScan(t, projects, periodStart, analyses) ==
    IF projects = <<>> THEN analyses
    ELSE LET projectName == Head(projects) IN
         IF DirAt(t, projectName) # "dir"                 \* existsSync, catch: continue
         THEN InsightScan(t, Tail(projects), periodStart, analyses)
         ELSE InsightScan(t, Tail(projects), periodStart,
                          AnalysesOfFiles(SelectSeq(FilesAt(t, projectName), IsSessionFile),
                                          periodStart, analyses))

Earliest(analyses) ==
    CHOOSE ts \in {analyses[k].timestamp : k \in 1..Len(analyses)} :
        \A k \in 1..Len(analyses) : ts <= analyses[k].timestamp

Latest(analyses) ==
    CHOOSE ts \in {analyses[k].timestamp : k \in 1..Len(analyses)} :
        \A k \in 1..Len(analyses) : ts >= analyses[k].timestamp

getInsightsResult(t, days, now, offset, claudeMdExists) ==
    LET projects == getProjects(t) IN
    IF projects.status = "threw" THEN Threw
    ELSE LET periodStart == IF days = <<>> THEN <<>>
                            ELSE <<periodStartOf(now, days[1], offset)>>
             analyses == InsightScan(t, projects.value, periodStart, <<>>)
         IN  IF Len(analyses) = 0
             THEN Returned([bestPractice |-> [score |-> 0, details |-> <<>>],
                            instructionQuality |-> [score |-> 0, details |-> <<>>],
                            workDensity |-> [score |-> 0, details |-> <<>>],
                            recommendations |-> <<NoSessionData>>,
                            analyzedSessions |-> 0,
                            analyzedPeriod |-> [from |-> 0, to |-> 0]])
             ELSE LET bestPractice       == scoreBestPractice(analyses, claudeMdExists)
                      instructionQuality == scoreInstructionQuality(analyses)
                      workDensity        == scoreWorkDensity(analyses)
                      recommendations    ==
                          generateRecommendations(bestPractice, instructionQuality,
                                                  workDensity)
                  IN  Returned([bestPractice |-> bestPractice,
                                instructionQuality |-> instructionQuality,
                                workDensity |-> workDensity,
                                recommendations |->
                                    IF Len(recommendations) > 0 THEN recommendations
                                    ELSE <<Affirmation>>,
                                analyzedSessions |-> Len(analyses),
                                analyzedPeriod |-> [from |-> Earliest(analyses),
                                                    to |-> Latest(analyses)]])

CallGetInsightsResult ==
    /\ call.op = "getInsightsResult" /\ result = Pending
    /\ result' = getInsightsResult(tree, call.days, call.now, call.offset,
                                   call.claudeMdExists)
    /\ UNCHANGED <<call, tree, outside, reads, segmentVars, exportVars, phaseVars,
                   cacheVars>>

(***************************************************************************)
(* getInsights on a project of at most MaxSessions session files, each one *)
(* of InsightFiles: a session that plans, delegates, edits a named file    *)
(* and runs the tests after a long request that names the file; a session  *)
(* of one short request answered in text; a session that is corrected and  *)
(* reads with 'cat'; a session that edits one file three times at a high   *)
(* cost in tokens; a session without timestamp.                            *)
(***************************************************************************)
LongRequest == [k \in 1..60 |-> IF k = 1 THEN "a.ts" ELSE "x"]

InsightFiles ==
    { << Line("user", 2, 1, 0, StrContent(LongRequest)),
         [Line("assistant", 2, 1, 0,
               ArrContent(<<ToolUse("EnterPlanMode", NoInput),
                            ToolUse("Task", Input(<<>>, <<>>, "Explore")),
                            ToolUse("Edit", Input(SomePath, <<>>, "")),
                            ToolUse("Bash", Input(<<>>, NpmTest, ""))>>))
            EXCEPT !.usage = UsageOf(1, 1)] >>,
      << Line("user", 2, 1, 0, StrContent(<<"x">>)),
         Line("assistant", 2, 1, 0, StrContent(<<"y">>)) >>,
      << Line("user", 1, 1, 0, StrContent(<<"NO", "x">>)),
         [Line("assistant", 1, 1, 0,
               ArrContent(<<ToolUse("Bash", Input(<<>>, <<"cat", "SP", "x">>, "")),
                            ToolUse("Read", Input(SomePath, <<>>, ""))>>))
            EXCEPT !.usage = UsageOf(2, 1)] >>,
      << Line("user", 2, 1, 0, StrContent(LongRequest)),
         [Line("assistant", 2, 1, 0,
               ArrContent(<<ToolUse("Edit", Input(OtherPath, <<>>, "")),
                            ToolUse("Edit", Input(OtherPath, <<>>, "")),
                            ToolUse("Edit", Input(OtherPath, <<>>, "")),
                            ToolUse("Write", Input(SomePath, <<>>, ""))>>))
            EXCEPT !.usage = UsageOf(400000, 1)] >>,
      << Line("user", 0, 1, 0, StrContent(<<"x">>)) >> }

InsightTrees ==
    { Root(<<Project(CleanProject,
                     [k \in 1..Len(fs) |-> SessionFile(AnalyticsNames[k], "ok", fs[k])])>>) :
        fs \in SeqsUpTo(InsightFiles, MaxSessions) }

InsightSpecInit ==
    /\ call \in [op : {"getInsightsResult"}, project : {<<>>}, session : {<<>>},
                  days : {<<>>, <<0>>}, now : {CurrentTime}, offset : {0},
                  claudeMdExists : BOOLEAN]
    /\ tree \in InsightTrees
    /\ outside = "missing"
    /\ result = Pending
    /\ reads = {}
    /\ SegmentIdle /\ ExportIdle /\ PhaseIdle /\ CacheIdle

SpecInsights == InsightSpecInit /\ [][CallGetInsightsResult]_vars

(***************************************************************************)
(* C22.  The statement as the specification words it: when at least one    *)
(* session is analysed, the recommendations are those of the 5 lowest      *)
(* sub-scores of the three axes, in ascending order of score, equal scores *)
(* in encounter order, and the affirmation alone is returned instead       *)
(* exactly when every sub-score is at least 60.                            *)
(***************************************************************************)
InsightsAnalysed ==
    /\ call.op = "getInsightsResult" /\ result.status = "returned"
    /\ result.value.analyzedSessions > 0

SubScores ==
    result.value.bestPractice.details \o result.value.instructionQuality.details
    \o result.value.workDensity.details

Before(j, i) ==
    \/ SubScores[j].score < SubScores[i].score
    \/ SubScores[j].score = SubScores[i].score /\ j < i

\* The recommendations of the (at most) n first of the sub-scores of S, in order
LowestOf(S, n) ==
    LET ranked == [k \in 1..Cardinality(S) |->
                      CHOOSE i \in S : Cardinality({j \in S : Before(j, i)}) = k - 1]
    IN  [k \in 1..(IF Cardinality(S) < n THEN Cardinality(S) ELSE n) |->
            Recommendation(SubScores[ranked[k]].category)]

LowSubScores == {i \in 1..Len(SubScores) : SubScores[i].score < 60}

C22_FiveLowestSubScores ==
    InsightsAnalysed =>
        /\ (result.value.recommendations = <<Affirmation>>) <=> (LowSubScores = {})
        /\ LowSubScores # {} =>
              result.value.recommendations = LowestOf(1..Len(SubScores), 5)

(***************************************************************************)
(* C22, amended.  Only the sub-scores below 60 are recommended on: the     *)
(* recommendations are those of the lowest sub-scores among the ones below *)
(* 60, at most 5 of them and fewer when fewer than 5 sub-scores are below  *)
(* 60, in ascending order of score, equal scores in encounter order; the   *)
(* affirmation alone is returned exactly when no sub-score is below 60.    *)
(***************************************************************************)
C22_LowestSubScoresBelow60 ==
    InsightsAnalysed =>
        /\ Len(SubScores) = 12
        /\ (result.value.recommendations = <<Affirmation>>) <=> (LowSubScores = {})
        /\ LowSubScores # {} =>
              result.value.recommendations = LowestOf(LowSubScores, 5)

C22_Witness ==
    /\ InsightsAnalysed
    /\ Cardinality(LowSubScores) > 5
    /\ Len(result.value.recommendations) = 5
    /\ \E j, k \in LowSubScores :
          /\ j < k /\ SubScores[k].score < SubScores[j].score
          /\ Recommendation(SubScores[k].category) = result.value.recommendations[1]
    /\ \E j \in 1..4 :
          \E i, k \in LowSubScores :
              /\ i < k /\ SubScores[i].score = SubScores[k].score
              /\ result.value.recommendations[j] = Recommendation(SubScores[i].category)
              /\ result.value.recommendations[j + 1] = Recommendation(SubScores[k].category)

====
